---- MODULE Spec2Model ----
(***************************************************************************)
(* A model of di_container/container.py: the registration records          *)
(* (Register and its subclasses), the hierarchical _Registry, the          *)
(* Container facade and the recursive resolution algorithm.                *)
(*                                                                         *)
(* Every public call (register_*, with_params, with_name_bindings,         *)
(* to_type, to_name, Register.resolve, Container.resolve_type/name,        *)
(* add_sub_container, remove_sub_container) is one action.  The variable   *)
(* `last` records the call just made and how it ended (value or            *)
(* exception, producer invocations made on the way).                       *)
(***************************************************************************)
EXTENDS Integers, Sequences, FiniteSets, TLC

(***************************************************************************)
(* Bounds.                                                                 *)
(***************************************************************************)
MaxRegisters == 2      \* Register objects ever created
MaxNested == 3         \* Register objects, and invocations, where a resolution nests twice
MaxInvocations == 2    \* producer invocations ever made

(***************************************************************************)
(* Values.  A value is [t |-> its runtime type, id |-> its identity].      *)
(***************************************************************************)
NoneV == [t |-> "NoneType", id |-> 0]
Lit(n) == [t |-> "int", id |-> n]
Obj(cls, n) == [t |-> cls, id |-> n]

NoRec == 0             \* "no Register" (Python None where a Register is expected)
NoKey == "<None>"      \* Register._key before binding
NoType == "<None>"     \* an absent return type / annotation

(***************************************************************************)
(* The classes of the hosting application and issubclass on them.          *)
(***************************************************************************)
IsSubclass(t, u) ==
  \/ u = "object"
  \/ t = u
  \/ t \in {"A", "B", "Wrap"} /\ u = "Base"

(***************************************************************************)
(* Python dicts that keep insertion order: sequences of [k, v] entries     *)
(* with distinct keys.                                                     *)
(***************************************************************************)
EmptyDict == <<>>
DictKeys(d) == {d[i].k : i \in DOMAIN d}
DictHas(d, key) == \E i \in DOMAIN d : d[i].k = key
DictGet(d, key) == d[CHOOSE i \in DOMAIN d : d[i].k = key].v
DictSet(d, key, val) ==
  IF DictHas(d, key)
  THEN [i \in DOMAIN d |-> IF d[i].k = key THEN [k |-> key, v |-> val] ELSE d[i]]
  ELSE Append(d, [k |-> key, v |-> val])
RECURSIVE DictUpdate(_, _)
DictUpdate(d, e) ==
  IF e = <<>> THEN d ELSE DictUpdate(DictSet(d, Head(e).k, Head(e).v), Tail(e))
DictPop(d, key) == SelectSeq(d, LAMBDA e : e.k # key)

(***************************************************************************)
(* Signatures of the producers, as inspect.getfullargspec reports them     *)
(* (for a class: of its __init__, without self).  `returns` is the class   *)
(* of the object a call constructs, or "NoneType" for a function that      *)
(* returns None.                                                           *)
(***************************************************************************)
Param(name, ann, hasd, d) ==
  [name |-> name, annotation |-> ann, has_default |-> hasd, default |-> d]

Signature(f) ==
  CASE f = "A" ->          \* class A(Base): def __init__(self)
         [is_type |-> TRUE, args |-> <<>>, varargs |-> FALSE,
          kwonlyargs |-> <<>>, varkw |-> FALSE, returns |-> "A"]
    [] f = "B" ->          \* class B(Base): def __init__(self)
         [is_type |-> TRUE, args |-> <<>>, varargs |-> FALSE,
          kwonlyargs |-> <<>>, varkw |-> FALSE, returns |-> "B"]
    [] f = "Dep" ->        \* class Dep: def __init__(self, x: Base)
         [is_type |-> TRUE, args |-> <<Param("x", "Base", FALSE, NoneV)>>,
          varargs |-> FALSE, kwonlyargs |-> <<>>, varkw |-> FALSE, returns |-> "Dep"]
    [] f = "Wrap" ->       \* class Wrap(Base): def __init__(self, x)
         [is_type |-> TRUE, args |-> <<Param("x", NoType, FALSE, NoneV)>>,
          varargs |-> FALSE, kwonlyargs |-> <<>>, varkw |-> FALSE, returns |-> "Wrap"]
    [] f = "Pair" ->       \* class Pair: def __init__(self, x: Base, y)
         [is_type |-> TRUE,
          args |-> <<Param("x", "Base", FALSE, NoneV), Param("y", NoType, FALSE, NoneV)>>,
          varargs |-> FALSE, kwonlyargs |-> <<>>, varkw |-> FALSE, returns |-> "Pair"]
    [] f = "va" ->         \* def va(x, *args, **kwargs): return A()
         [is_type |-> FALSE, args |-> <<Param("x", NoType, FALSE, NoneV)>>,
          varargs |-> TRUE, kwonlyargs |-> <<>>, varkw |-> TRUE, returns |-> "A"]
    [] f = "opt" ->        \* def opt(x: int = 7): return A()
         [is_type |-> FALSE, args |-> <<Param("x", "int", TRUE, Lit(7))>>,
          varargs |-> FALSE, kwonlyargs |-> <<>>, varkw |-> FALSE, returns |-> "A"]
    [] f = "opt_none" ->   \* def opt_none(x: int = None): return A()
         [is_type |-> FALSE, args |-> <<Param("x", "int", TRUE, NoneV)>>,
          varargs |-> FALSE, kwonlyargs |-> <<>>, varkw |-> FALSE, returns |-> "A"]
    [] f = "make_none" ->  \* def make_none(): return None
         [is_type |-> FALSE, args |-> <<>>, varargs |-> FALSE,
          kwonlyargs |-> <<>>, varkw |-> FALSE, returns |-> "NoneType"]
    [] f = "make_a" ->     \* def make_a(x=7): return A()
         [is_type |-> FALSE, args |-> <<Param("x", NoType, TRUE, Lit(7))>>,
          varargs |-> FALSE, kwonlyargs |-> <<>>, varkw |-> FALSE, returns |-> "A"]

(***************************************************************************)
(* The containers of the composition root, Container(name,                 *)
(* param_names_as_bindings=...), and the keys the application uses.        *)
(***************************************************************************)
Containers == {"main", "sub"}
\* with two more containers, for chains of sub-containers three levels deep
AllContainers == Containers \cup {"sub2", "leaf"}
TypeKeys == {"Base", "int"}
NameKeys == {"x", "y"}
Keys == TypeKeys \cup NameKeys

VARIABLES
  param_names_as_bindings,  \* Container._param_names_as_bindings
  sub_containers,           \* Container._sub_containers: ordered, keyed by name
  sub_registries,           \* _Registry._sub_registries: ordered, keyed by name
  registry,                 \* the local entries of each container's _Registry
  registers,                \* the Register objects created so far, in order
  ninvocations,             \* number of producer invocations made so far
  last,                     \* the call just made and its outcome
  resolved_once,            \* history: Registers with a completed resolution
  latest,                   \* history: Register last bound to (container, key)
  replaced_by,              \* history: per Register, the Register whose bind superseded it
  threads                   \* per thread, its position in Register.resolve

vars == <<param_names_as_bindings, sub_containers, sub_registries, registry,
          registers, ninvocations, last, resolved_once, latest, replaced_by, threads>>

RecIds == DOMAIN registers

\* Callers of Register.resolve that may run at the same time
Threads == {"t1", "t2"}

\* A thread outside resolve; made and ret keep what its last call produced
\* and returned
Idle == [pc |-> "idle", r |-> NoRec, prefer_defaults |-> FALSE, made |-> NoneV, ret |-> NoneV]
MaxDepth == Cardinality(AllContainers)

(***************************************************************************)
(* _Registry: lookup through the chain of sub-registries.  A registry is   *)
(* identified with the container that owns it.  A search that descends     *)
(* through more registries than there are containers is on a cycle of      *)
(* sub-registries and never returns: Python ends it with RecursionError,   *)
(* reported here as "loop" / Loop.                                         *)
(***************************************************************************)
Loop == 0 - 1

LocalHas(g, k) == k \in Keys /\ registry[g][k] # NoRec

RECURSIVE Contains(_, _, _), AnyContains(_, _, _, _)
\* _Registry.__contains__
Contains(g, k, d) ==
  IF d = 0 THEN "loop"
  ELSE IF LocalHas(g, k) THEN "yes"
  ELSE AnyContains(sub_registries[g], 1, k, d - 1)
\* any(o in sub_registry for sub_registry in self._sub_registries.values())
AnyContains(subs, i, k, d) ==
  IF i > Len(subs) THEN "no"
  ELSE LET c == Contains(subs[i], k, d)
       IN  IF c = "no" THEN AnyContains(subs, i + 1, k, d) ELSE c

RECURSIVE GetItem(_, _, _), GetItemSubs(_, _, _, _)
\* a __getitem__ that asks the sub registries before the local entries
GetItem_SubsFirst(g, k, d) ==
  IF d = 0 THEN Loop
  ELSE IF GetItemSubs(sub_registries[g], 1, k, d - 1) # NoRec
  THEN GetItemSubs(sub_registries[g], 1, k, d - 1)
  ELSE IF LocalHas(g, k) THEN registry[g][k] ELSE NoRec

\* _Registry.__getitem__: a Register, NoRec (the implicit None) or Loop
GetItem(g, k, d) ==
  IF d = 0 THEN Loop
  ELSE IF LocalHas(g, k) THEN registry[g][k]
  ELSE GetItemSubs(sub_registries[g], 1, k, d - 1)
GetItemSubs(subs, i, k, d) ==
  IF i > Len(subs) THEN NoRec
  ELSE LET c == Contains(subs[i], k, d)
       IN  IF c = "loop" THEN Loop
           ELSE IF c = "yes" THEN GetItem(subs[i], k, d)
           ELSE GetItemSubs(subs, i + 1, k, d)

\* dict.get(key, None) on a _Registry: the local entries only
DictGetLocal(g, k) == IF k \in Keys THEN registry[g][k] ELSE NoRec

(***************************************************************************)
(* Register objects.                                                       *)
(***************************************************************************)
\* Register.__init__ and the subclasses' __init__
NewRegister(cls, g, function, return_type, instantiation, pnab, cached) ==
  [cls |-> cls,
   function |-> function,
   return_type |-> return_type,
   is_valid |-> TRUE,
   key |-> NoKey,
   registry |-> g,
   instantiation |-> instantiation,
   param_names_as_bindings |-> pnab,
   given_positional_params |-> <<>>,
   given_keyword_params |-> EmptyDict,
   given_positional_name_bindings |-> <<>>,
   given_keyword_name_bindings |-> EmptyDict,
   cached_instance |-> cached]

\* _type_to_check of CallableRegister/TypeRegister and of ValueRegister
TypeToCheck(reg) ==
  IF reg.cls = "ValueRegister" THEN reg.cached_instance.t ELSE reg.return_type

\* the outcome of a call, as kept in `last`: the call (op), the container and
\* the Register it was made on, the key it names, the exception it raised or
\* "none", the value it returned, the errors it aggregated and the producer
\* invocations and cache hits it made; for a binding call also the local
\* occupant of the key before the call (old), replace (flag) and the type to
\* check against (arg); for a resolving call prefer_defaults (flag); for a
\* configuring call the number of positional arguments given (npos); for an
\* add_sub_container the containers and Registers as they were before the
\* call (before)
Outcome(op, c, r, key, exc, val, errs, trace) ==
  [op |-> op, c |-> c, r |-> r, key |-> key, exc |-> exc, val |-> val,
   errs |-> errs, trace |-> trace, old |-> NoRec, flag |-> FALSE, arg |-> NoType,
   npos |-> 0, before |-> <<>>, stack |-> <<>>]

\* registry[k] on the _Registry of the container g: the Register found, or
\* NoRec for the None that __getitem__ returns when it finds nothing
GetItemCall(g, k) ==
  LET found == GetItem(g, k, MaxDepth)
  IN  /\ last' = Outcome("__getitem__", g, IF found = Loop THEN NoRec ELSE found, k,
                         IF found = Loop THEN "RecursionError" ELSE "none",
                         NoneV, <<>>, <<>>)
      /\ UNCHANGED <<param_names_as_bindings, sub_containers, sub_registries, registry,
                     registers, ninvocations, resolved_once, latest, replaced_by, threads>>

Unchanged_containers ==
  UNCHANGED <<param_names_as_bindings, sub_containers, sub_registries, threads>>

\* a creation that also enters the new Register in the registry, under x
Create_Registering(g, reg, op) ==
  /\ Len(registers) < MaxRegisters
  /\ registers' = Append(registers, [reg EXCEPT !.key = "x"])
  /\ registry' = [registry EXCEPT ![g]["x"] = Len(registers) + 1]
  /\ replaced_by' = Append(replaced_by, NoRec)
  /\ last' = Outcome(op, g, Len(registers) + 1, NoKey, "none", NoneV, <<>>, <<>>)
  /\ Unchanged_containers
  /\ UNCHANGED <<ninvocations, resolved_once, latest>>

CreateUpTo(limit, g, reg, op) ==
  /\ Len(registers) < limit
  /\ registers' = Append(registers, reg)
  /\ replaced_by' = Append(replaced_by, NoRec)
  /\ last' = Outcome(op, g, Len(registers) + 1, NoKey, "none", NoneV, <<>>, <<>>)
  /\ Unchanged_containers
  /\ UNCHANGED <<registry, ninvocations, resolved_once, latest>>

\* Container.register_type
Create(g, reg, op) == CreateUpTo(MaxRegisters, g, reg, op)

RegisterType(g, concrete_type, instantiation) ==
  Create(g, NewRegister("TypeRegister", g, concrete_type, concrete_type, instantiation,
                        param_names_as_bindings[g], NoneV), "register_type")

\* Container.register_callable
RegisterCallable(g, a_callable, instantiation, return_type) ==
  Create(g, NewRegister("CallableRegister", g, a_callable, return_type, instantiation,
                        param_names_as_bindings[g], NoneV), "register_callable")

\* Container.register_value
RegisterValue(g, value) ==
  Create(g, NewRegister("ValueRegister", g, "<value>", NoType, "Singleton", FALSE, value),
         "register_value")

(***************************************************************************)
(* Configuration and binding of a Register.                                *)
(***************************************************************************)
\* Register._invalidate, as the new state of the registers and the registries
InvalidateRegisters(regs, r) == [regs EXCEPT ![r].is_valid = FALSE]
InvalidateRegistry(regs, r) ==
  LET g == regs[r].registry
      k == regs[r].key
  IN  IF k \in Keys THEN [registry EXCEPT ![g][k] = NoRec] ELSE registry

\* a check of the positional inputs that accepts every combination
BothPositionalInputs_Accepting(reg) == FALSE

\* Register._check_only_one_type_of_positional_input: does it raise?
BothPositionalInputs(reg) ==
  reg.given_positional_params # <<>> /\ reg.given_positional_name_bindings # <<>>

Frame_config == UNCHANGED <<ninvocations, resolved_once, latest, replaced_by>>

\* Register.with_params / ValueRegister.with_params
WithParams(r, positional_params, keyword_params) ==
  LET reg == registers[r]
      set == [registers EXCEPT ![r].given_positional_params = positional_params]
      done(exc) == [Outcome("with_params", reg.registry, r, reg.key, exc, NoneV, <<>>, <<>>)
                      EXCEPT !.npos = Len(positional_params)]
  IN  /\ Unchanged_containers
      /\ Frame_config
      /\ IF reg.cls = "ValueRegister"
         THEN /\ last' = done("DiContainerError:operation")
              /\ UNCHANGED <<registers, registry>>
         ELSE IF ~reg.is_valid
         THEN /\ last' = done("DiContainerError:validity")
              /\ UNCHANGED <<registers, registry>>
         ELSE IF BothPositionalInputs(set[r])
         THEN /\ last' = done("DiContainerError:positional")
              /\ registers' = InvalidateRegisters(set, r)
              /\ registry' = InvalidateRegistry(set, r)
         ELSE /\ last' = done("none")
              /\ registers' = [set EXCEPT ![r].given_keyword_params = keyword_params]
              /\ UNCHANGED registry

\* Register.with_name_bindings / ValueRegister.with_name_bindings(**keyword_name_bindings)
WithNameBindings(r, positional_name_bindings, keyword_name_bindings) ==
  LET reg == registers[r]
      set == [registers EXCEPT ![r].given_positional_name_bindings = positional_name_bindings]
      done(exc) == [Outcome("with_name_bindings", reg.registry, r, reg.key, exc, NoneV,
                            <<>>, <<>>)
                      EXCEPT !.npos = Len(positional_name_bindings)]
  IN  /\ Unchanged_containers
      /\ Frame_config
      /\ IF reg.cls = "ValueRegister"
         THEN /\ last' = done(IF positional_name_bindings # <<>>
                              THEN "TypeError:arguments" ELSE "DiContainerError:operation")
              /\ UNCHANGED <<registers, registry>>
         ELSE IF ~reg.is_valid
         THEN /\ last' = done("DiContainerError:validity")
              /\ UNCHANGED <<registers, registry>>
         ELSE IF BothPositionalInputs(set[r])
         THEN /\ last' = done("DiContainerError:positional")
              /\ registers' = InvalidateRegisters(set, r)
              /\ registry' = InvalidateRegistry(set, r)
         ELSE /\ last' = done("none")
              /\ registers' = [set EXCEPT ![r].given_keyword_name_bindings = keyword_name_bindings]
              /\ UNCHANGED registry

\* a type check that accepts every type
CheckTypeFails_Accepting(reg, type_to_check_against) == FALSE

\* Register._check_type: does it raise TypeError?
CheckTypeFails(reg, type_to_check_against) ==
  TypeToCheck(reg) # NoType /\ ~IsSubclass(TypeToCheck(reg), type_to_check_against)

\* _register_to_key without its test of self._key
RegisterToKeyExc_Rebinding(r, register_key, type_to_check_against, replace) ==
  LET reg == registers[r]
      g == reg.registry
      has == Contains(g, register_key, MaxDepth)
  IN  IF has = "loop" THEN "RecursionError"
      ELSE IF has = "yes" /\ ~replace
      THEN (IF TypeToCheck(registers[GetItem(g, register_key, MaxDepth)]) = NoType
            THEN "AttributeError" ELSE "ValueError:conflict")
      ELSE IF CheckTypeFails(reg, type_to_check_against) THEN "TypeError:subclass"
      ELSE "none"

\* Register._register_to_key: the exception it ends with, "none" if it registers
RegisterToKeyExc(r, register_key, type_to_check_against, replace) ==
  LET reg == registers[r]
      g == reg.registry
      has == Contains(g, register_key, MaxDepth)
  IN  IF reg.key # NoKey THEN "DiContainerError:bound"
      ELSE IF has = "loop" THEN "RecursionError"
      ELSE IF has = "yes" /\ ~replace
      THEN (IF TypeToCheck(registers[GetItem(g, register_key, MaxDepth)]) = NoType
            THEN "AttributeError" ELSE "ValueError:conflict")
      ELSE IF CheckTypeFails(reg, type_to_check_against) THEN "TypeError:subclass"
      ELSE "none"

\* a binding that, replacing, also takes the key out of the sub-registries
Bind_ReplacingInChain(op, r, register_key, type_to_check_against, replace) ==
  LET reg == registers[r]
      g == reg.registry
      exc == IF ~reg.is_valid THEN "DiContainerError:validity"
             ELSE RegisterToKeyExc(r, register_key, type_to_check_against, replace)
      old == registry[g][register_key]
  IN  /\ last' = [Outcome(op, g, r, register_key, exc, NoneV, <<>>, <<>>)
                    EXCEPT !.old = old, !.flag = replace, !.arg = type_to_check_against]
      /\ Unchanged_containers
      /\ UNCHANGED <<ninvocations, resolved_once>>
      /\ IF exc = "none"
         THEN /\ registry' = [c \in DOMAIN registry |->
                               [k \in DOMAIN registry[c] |->
                                  IF k # register_key THEN registry[c][k]
                                  ELSE IF c = g THEN r
                                  ELSE IF \E i \in DOMAIN sub_registries[g] : sub_registries[g][i] = c THEN NoRec
                                  ELSE registry[c][k]]]
              /\ registers' = [registers EXCEPT ![r].key = register_key]
              /\ latest' = [latest EXCEPT ![g][register_key] = r]
              /\ replaced_by' = IF old # NoRec THEN [replaced_by EXCEPT ![old] = r]
                                ELSE replaced_by
         ELSE UNCHANGED <<registry, registers, latest, replaced_by>>

\* to_type and to_name after their arguments are told apart
Bind(op, r, register_key, type_to_check_against, replace) ==
  LET reg == registers[r]
      g == reg.registry
      exc == IF ~reg.is_valid THEN "DiContainerError:validity"
             ELSE RegisterToKeyExc(r, register_key, type_to_check_against, replace)
      old == registry[g][register_key]
  IN  /\ last' = [Outcome(op, g, r, register_key, exc, NoneV, <<>>, <<>>)
                    EXCEPT !.old = old, !.flag = replace, !.arg = type_to_check_against]
      /\ Unchanged_containers
      /\ UNCHANGED <<ninvocations, resolved_once>>
      /\ IF exc = "none"
         THEN /\ registry' = [registry EXCEPT ![g][register_key] = r]
              /\ registers' = [registers EXCEPT ![r].key = register_key]
              /\ latest' = [latest EXCEPT ![g][register_key] = r]
              /\ replaced_by' = IF old # NoRec THEN [replaced_by EXCEPT ![old] = r]
                                ELSE replaced_by
         ELSE UNCHANGED <<registry, registers, latest, replaced_by>>

\* Register.to_type
ToType(r, dependency_type, replace) ==
  Bind("to_type", r, dependency_type, dependency_type, replace)

\* Register.to_name
ToName(r, name, base_type, replace) ==
  Bind("to_name", r, name, base_type, replace)

(***************************************************************************)
(* The resolution algorithm.  It runs on a heap h = [regs, ninv, trace,    *)
(* done]: the Registers (their caches change), the number of producer      *)
(* invocations, the producer invocations and cache hits of this call, and  *)
(* Registers whose resolution completed.  Every step yields                *)
(* [h, exc, val, errs, is_resolved]; exc # "none" is a raised exception,   *)
(* which every caller passes on.  The deque of Registers in the resolving  *)
(* process is passed down as a sequence: a Register appends itself before  *)
(* resolving its parameters and pops itself when it returns.               *)
(***************************************************************************)
Result(h, exc, val, errs, is_resolved) ==
  [h |-> h, exc |-> exc, val |-> val, errs |-> errs, is_resolved |-> is_resolved]

Event(ev, r, val, args, kwargs) ==
  [ev |-> ev, r |-> r, val |-> val, args |-> args, kwargs |-> kwargs, stack |-> <<>>]

Error(e, p) == [e |-> e, p |-> p]

\* the error _resolve records when the Register is already in the resolving
\* process; stack is registers_in_resolving_process at that moment
CircularError(key, stack) == [e |-> "circular", p |-> key, stack |-> stack]

InSeq(x, s) == \E i \in DOMAIN s : s[i] = x
ParamNames(ps) == {ps[i].name : i \in DOMAIN ps}

\* a_callable(*arg_values, **kwarg_values): does Python refuse the arguments?
CallRaises(sig, arg_values, kwarg_values) ==
  \/ Len(arg_values) > Len(sig.args) /\ ~sig.varargs
  \/ \E i \in DOMAIN sig.args : i <= Len(arg_values) /\ DictHas(kwarg_values, sig.args[i].name)
  \/ ~sig.varkw /\ \E k \in DictKeys(kwarg_values) :
                     k \notin ParamNames(sig.args) \cup ParamNames(sig.kwonlyargs)
  \/ \E i \in DOMAIN sig.args :
       i > Len(arg_values) /\ ~sig.args[i].has_default /\ ~DictHas(kwarg_values, sig.args[i].name)
  \/ \E i \in DOMAIN sig.kwonlyargs :
       ~sig.kwonlyargs[i].has_default /\ ~DictHas(kwarg_values, sig.kwonlyargs[i].name)

RECURSIVE ResolveRecursive(_, _, _, _)

\* a nested lookup through the registry chain of main, whatever container
\* created the Register
Nested_InMain(h, r, stack, key) ==
  LET g == "main"
      has == Contains(g, key, MaxDepth)
  IN  IF has = "loop" THEN Result(h, "RecursionError", NoneV, <<>>, FALSE)
      ELSE IF has = "no" THEN Result(h, "none", NoneV, <<>>, FALSE)
      ELSE ResolveRecursive(h, GetItem(g, key, MaxDepth), stack, FALSE)

\* "if key in self._registry: value = self._registry[key]._resolve_recursive(
\*      errors, registers_in_resolving_process, prefer_defaults=False)"
Nested(h, r, stack, key) ==
  LET g == h.regs[r].registry
      has == Contains(g, key, MaxDepth)
  IN  IF has = "loop" THEN Result(h, "RecursionError", NoneV, <<>>, FALSE)
      ELSE IF has = "no" THEN Result(h, "none", NoneV, <<>>, FALSE)
      ELSE ResolveRecursive(h, GetItem(g, key, MaxDepth), stack, FALSE)

\* _resolve_param, the if/elif chain: given value, name binding, preferred
\* default, annotation
FirstChoice(h, r, stack, q) ==
  IF q.has_given_value THEN Result(h, "none", q.given_value, <<>>, TRUE)
  ELSE IF q.has_name_binding THEN Nested(h, r, stack, q.name_binding)
  ELSE IF q.prefer_defaults /\ q.has_default THEN Result(h, "none", q.default, <<>>, TRUE)
  ELSE IF q.has_annotation THEN Nested(h, r, stack, q.annotation)
  ELSE Result(h, "none", NoneV, <<>>, FALSE)

\* _resolve_param, "elif has_default: value = default"
ByDefault(q, first) ==
  IF q.has_default THEN [first EXCEPT !.val = q.default, !.is_resolved = TRUE] ELSE first

\* _resolve_param, "if self._param_names_as_bindings and param_name in self._registry",
\* by_name being what the lookup of the parameter's name gave
ByName(q, first, by_name) ==
  IF by_name.exc # "none" THEN by_name
  ELSE IF by_name.is_resolved THEN [by_name EXCEPT !.errs = first.errs \o @]
  ELSE ByDefault(q, first)

\* the last resort of a _resolve_param that looks the parameter's name up
\* whatever the container's param_names_as_bindings says
LastResort_AnyContainer(r, stack, q, first) ==
  IF first.exc # "none" \/ first.val # NoneV THEN first
  ELSE ByName(q, first, Nested(first.h, r, stack, q.param_name))

\* _resolve_param, "if value is None:", the last resort
LastResort(r, stack, q, first) ==
  IF first.exc # "none" \/ first.val # NoneV THEN first
  ELSE IF first.h.regs[r].param_names_as_bindings
  THEN ByName(q, first, Nested(first.h, r, stack, q.param_name))
  ELSE ByDefault(q, first)

\* _resolve_param, "if not is_resolved: errors.append(...)"
Conclude(q, second) ==
  IF second.exc # "none" \/ second.is_resolved THEN second
  ELSE [second EXCEPT !.errs = Append(@, Error("unresolvable", q.param_name))]

\* Register._resolve_param; q holds its arguments
ResolveParam(h, r, stack, q) ==
  Conclude(q, LastResort(r, stack, q, FirstChoice(h, r, stack, q)))

\* the arguments of _resolve_param for a declared parameter
Query(param, hgv, gv, hnb, nb, prefer_defaults) ==
  [param_name |-> param.name,
   has_given_value |-> hgv, given_value |-> gv,
   has_name_binding |-> hnb, name_binding |-> nb,
   has_default |-> param.has_default, default |-> param.default,
   prefer_defaults |-> prefer_defaults,
   has_annotation |-> param.annotation # NoType, annotation |-> param.annotation]

\* _resolve_params, what the loop over params.args passes for parameter i
PositionalQuery(reg, i, prefer_defaults) ==
  LET param == Signature(reg.function).args[i]
      by_pos == i <= Len(reg.given_positional_params)
      by_kw == DictHas(reg.given_keyword_params, param.name)
      nb_pos == i <= Len(reg.given_positional_name_bindings)
      nb_kw == DictHas(reg.given_keyword_name_bindings, param.name)
  IN  Query(param,
            by_pos \/ by_kw,
            IF by_pos THEN reg.given_positional_params[i]
            ELSE IF by_kw THEN DictGet(reg.given_keyword_params, param.name) ELSE NoneV,
            nb_pos \/ nb_kw,
            IF nb_pos THEN reg.given_positional_name_bindings[i]
            ELSE IF nb_kw THEN DictGet(reg.given_keyword_name_bindings, param.name)
            ELSE NoKey,
            prefer_defaults)

\* _resolve_params, what the loop over params.kwonlyargs passes for parameter i
KwOnlyQuery(reg, i, prefer_defaults) ==
  LET param == Signature(reg.function).kwonlyargs[i]
      by_kw == DictHas(reg.given_keyword_params, param.name)
      nb_kw == DictHas(reg.given_keyword_name_bindings, param.name)
  IN  Query(param,
            by_kw,
            IF by_kw THEN DictGet(reg.given_keyword_params, param.name) ELSE NoneV,
            nb_kw,
            IF nb_kw THEN DictGet(reg.given_keyword_name_bindings, param.name) ELSE NoKey,
            prefer_defaults)

\* _resolve_params, what the loop over the keyword name bindings passes for entry i
VarKwQuery(reg, i, prefer_defaults) ==
  [param_name |-> reg.given_keyword_name_bindings[i].k,
   has_given_value |-> FALSE, given_value |-> NoneV,
   has_name_binding |-> TRUE, name_binding |-> reg.given_keyword_name_bindings[i].v,
   has_default |-> FALSE, default |-> NoneV,
   prefer_defaults |-> prefer_defaults,
   has_annotation |-> FALSE, annotation |-> NoType]

\* the state of _resolve_params: arg_values, kwarg_values, errors
Acc(h, exc, args, kwargs, errs) ==
  [h |-> h, exc |-> exc, args |-> args, kwargs |-> kwargs, errs |-> errs]

\* "arg_values.append(arg_value); errors.extend(param_errors)"
Collect(acc, res) ==
  Acc(res.h, res.exc, Append(acc.args, res.val), acc.kwargs, acc.errs \o res.errs)

\* "kwarg_values[kwarg] = kwarg_value; errors.extend(param_errors)"
CollectKw(acc, kwarg, res) ==
  Acc(res.h, res.exc, acc.args, DictSet(acc.kwargs, kwarg, res.val), acc.errs \o res.errs)

RECURSIVE PositionalLoop(_, _, _, _, _), ExtraBindingsLoop(_, _, _, _),
          KwOnlyLoop(_, _, _, _, _), VarKwBindingsLoop(_, _, _, _, _)

\* _resolve_params, "handle positional arguments": parameter i and the following ones
PositionalLoop(acc, r, stack, prefer_defaults, i) ==
  IF acc.exc # "none" \/ i > Len(Signature(acc.h.regs[r].function).args) THEN acc
  ELSE PositionalLoop(
         Collect(acc, ResolveParam(acc.h, r, stack,
                                   PositionalQuery(acc.h.regs[r], i, prefer_defaults))),
         r, stack, prefer_defaults, i + 1)

\* _resolve_params, the list comprehension over the excess positional name bindings
ExtraBindingsLoop(acc, r, stack, i) ==
  LET reg == acc.h.regs[r]
      found == GetItem(reg.registry, reg.given_positional_name_bindings[i], MaxDepth)
  IN  IF acc.exc # "none" \/ i > Len(reg.given_positional_name_bindings) THEN acc
      ELSE IF found = Loop THEN [acc EXCEPT !.exc = "RecursionError"]
      ELSE IF found = NoRec THEN [acc EXCEPT !.exc = "AttributeError"]
      ELSE ExtraBindingsLoop(Collect(acc, ResolveRecursive(acc.h, found, stack, FALSE)),
                             r, stack, i + 1)

\* _resolve_params, "handle keyword arguments": keyword-only parameter i and the following
KwOnlyLoop(acc, r, stack, prefer_defaults, i) ==
  IF acc.exc # "none" \/ i > Len(Signature(acc.h.regs[r].function).kwonlyargs) THEN acc
  ELSE KwOnlyLoop(
         CollectKw(acc, Signature(acc.h.regs[r].function).kwonlyargs[i].name,
                   ResolveParam(acc.h, r, stack,
                                KwOnlyQuery(acc.h.regs[r], i, prefer_defaults))),
         r, stack, prefer_defaults, i + 1)

\* _resolve_params, the loop over self._given_keyword_name_bindings.items()
VarKwBindingsLoop(acc, r, stack, prefer_defaults, i) ==
  IF acc.exc # "none" \/ i > Len(acc.h.regs[r].given_keyword_name_bindings) THEN acc
  ELSE VarKwBindingsLoop(
         CollectKw(acc, acc.h.regs[r].given_keyword_name_bindings[i].k,
                   ResolveParam(acc.h, r, stack,
                                VarKwQuery(acc.h.regs[r], i, prefer_defaults))),
         r, stack, prefer_defaults, i + 1)

\* _resolve_params, "handle vararg (*args)"
VarArgs(r, stack, positional) ==
  LET reg == positional.h.regs[r]
      sig == Signature(reg.function)
      n == Len(sig.args)
      given == reg.given_positional_params
  IN  IF positional.exc # "none" THEN positional
      ELSE IF Len(given) > n
      THEN (IF sig.varargs
            THEN [positional EXCEPT !.args = @ \o SubSeq(given, n + 1, Len(given))]
            ELSE [positional EXCEPT !.errs = Append(@, Error("too_many_params", ""))])
      ELSE IF Len(reg.given_positional_name_bindings) > n
      THEN (IF sig.varargs
            THEN ExtraBindingsLoop([positional EXCEPT
                                      !.args = @ \o SubSeq(given, n + 1, Len(given))],
                                   r, stack, n + 1)
            ELSE [positional EXCEPT !.errs = Append(@, Error("too_many_bindings", ""))])
      ELSE positional

DeclaredNames(sig) == ParamNames(sig.args) \cup ParamNames(sig.kwonlyargs)

\* _resolve_params, "handle varkw (**kwargs) with unused given keyword params"
VarKwParams(r, kwonly) ==
  LET reg == kwonly.h.regs[r]
      sig == Signature(reg.function)
      unused_keywords == DictKeys(reg.given_keyword_params) \ DeclaredNames(sig)
  IN  IF kwonly.exc # "none" \/ unused_keywords = {} THEN kwonly
      ELSE IF sig.varkw
      THEN [kwonly EXCEPT !.kwargs = DictUpdate(@, reg.given_keyword_params)]
      ELSE [kwonly EXCEPT !.errs = Append(@, Error("unused_keywords", ""))]

\* _resolve_params, "handle varkw (**kwargs) with unused given name bindings"
VarKwBindings(r, stack, prefer_defaults, acc) ==
  LET reg == acc.h.regs[r]
      sig == Signature(reg.function)
      unused_name_bindings == DictKeys(reg.given_keyword_name_bindings) \ DeclaredNames(sig)
  IN  IF acc.exc # "none" \/ unused_name_bindings = {} THEN acc
      ELSE IF sig.varkw THEN VarKwBindingsLoop(acc, r, stack, prefer_defaults, 1)
      ELSE [acc EXCEPT !.errs = Append(@, Error("unused_name_bindings", ""))]

\* Register._resolve_params
ResolveParams(h, r, stack, prefer_defaults) ==
  VarKwBindings(r, stack, prefer_defaults,
    VarKwParams(r,
      KwOnlyLoop(
        VarArgs(r, stack,
          PositionalLoop(Acc(h, "none", <<>>, EmptyDict, <<>>), r, stack, prefer_defaults, 1)),
        r, stack, prefer_defaults, 1)))

\* _resolve that invokes the producer whatever errors were gathered
Invoke_IgnoringErrors(r, ps) ==
  LET sig == Signature(ps.h.regs[r].function)
      value == Obj(sig.returns, ps.h.ninv + 1)
  IN  IF ps.exc # "none" THEN Result(ps.h, ps.exc, NoneV, ps.errs, FALSE)
      ELSE Result([ps.h EXCEPT !.ninv = @ + 1,
                               !.trace = Append(@, [Event("call", r, value, ps.args, ps.kwargs)
                                                      EXCEPT !.stack = ps.h.deque]),
                               !.deque = SubSeq(@, 1, Len(@) - 1)],
                  "none", value, ps.errs, TRUE)

\* an invocation after which the Register stays in registers_in_resolving_process
Invoke_NotPopping(r, ps) ==
  LET sig == Signature(ps.h.regs[r].function)
      made == sig.returns # "NoneType"
      value == IF made THEN Obj(sig.returns, ps.h.ninv + 1) ELSE NoneV
  IN  IF ps.exc # "none" THEN Result(ps.h, ps.exc, NoneV, ps.errs, FALSE)
      ELSE IF ps.errs # <<>>
      THEN Result(ps.h, "DiContainerError:resolve", NoneV, ps.errs, FALSE)
      ELSE IF CallRaises(sig, ps.args, ps.kwargs)
      THEN Result(ps.h, "TypeError:call", NoneV, <<>>, FALSE)
      ELSE Result([ps.h EXCEPT !.ninv = @ + 1,
                               !.trace = Append(@, [Event("call", r, value, ps.args, ps.kwargs)
                                                      EXCEPT !.stack = ps.h.deque])],
                  "none", value, <<>>, TRUE)

\* Register._resolve after _resolve_params returned ps: raise the aggregated
\* error or invoke the producer
Invoke(r, ps) ==
  LET sig == Signature(ps.h.regs[r].function)
      made == sig.returns # "NoneType"
      value == IF made THEN Obj(sig.returns, ps.h.ninv + 1) ELSE NoneV
  IN  IF ps.exc # "none" THEN Result(ps.h, ps.exc, NoneV, ps.errs, FALSE)
      ELSE IF ps.errs # <<>>
      THEN Result(ps.h, "DiContainerError:resolve", NoneV, ps.errs, FALSE)
      ELSE IF CallRaises(sig, ps.args, ps.kwargs)
      THEN Result(ps.h, "TypeError:call", NoneV, <<>>, FALSE)
      ELSE Result([ps.h EXCEPT !.ninv = @ + 1,
                               !.trace = Append(@, [Event("call", r, value, ps.args, ps.kwargs)
                                                      EXCEPT !.stack = ps.h.deque]),
                               !.deque = SubSeq(@, 1, Len(@) - 1)],
                  "none", value, <<>>, TRUE)

\* Register._resolve
ResolveOne(h, r, stack, prefer_defaults) ==
  IF h.regs[r].cls = "ValueRegister"      \* ValueRegister._factory_method
  THEN Result(h, "DiContainerError:operation", NoneV, <<>>, FALSE)
  ELSE IF InSeq(r, h.deque)
  THEN Result(h, "none", NoneV, <<CircularError(h.regs[r].key, stack)>>, TRUE)
  ELSE Invoke(r, ResolveParams([h EXCEPT !.deque = Append(@, r)], r, Append(stack, r),
                               prefer_defaults))

\* _resolve_recursive, "self._cached_instance, sub_errors = ...; errors.extend(sub_errors)"
Cached(r, res) ==
  IF res.exc # "none" THEN res
  ELSE Result([res.h EXCEPT !.regs[r].cached_instance = res.val,
                            !.done = IF res.errs = <<>> THEN @ \cup {r} ELSE @],
              "none", res.val, res.errs, TRUE)

\* a guard that treats MultiInstance like Singleton
NeedsResolve_CacheOnly(reg) == reg.cached_instance = NoneV

\* _resolve_recursive, the test that guards the computation
NeedsResolve(reg) ==
  reg.cached_instance = NoneV \/ reg.instantiation = "MultiInstance"

\* Register._resolve_recursive
ResolveRecursive(h, r, stack, prefer_defaults) ==
  IF NeedsResolve(h.regs[r])
  THEN Cached(r, ResolveOne(h, r, stack, prefer_defaults))
  ELSE Result([h EXCEPT !.trace = Append(@, Event("cached", r, h.regs[r].cached_instance,
                                                  <<>>, EmptyDict)),
                        !.done = @ \cup {r}],
              "none", h.regs[r].cached_instance, <<>>, TRUE)

(***************************************************************************)
(* Resolving: Register.resolve and Container.resolve_type/resolve_name.    *)
(***************************************************************************)
Heap ==
  [regs |-> registers, ninv |-> ninvocations, trace |-> <<>>, done |-> resolved_once,
   deque |-> <<>>]

\* Register.resolve without _check_validity
RegisterResolve_Unchecked(r, prefer_defaults) ==
  ResolveRecursive(Heap, r, <<>>, prefer_defaults)

\* Register.resolve, as the Result of the call
RegisterResolve(r, prefer_defaults) ==
  IF ~registers[r].is_valid
  THEN Result(Heap, "DiContainerError:validity", NoneV, <<>>, FALSE)
  ELSE ResolveRecursive(Heap, r, <<>>, prefer_defaults)

\* Register.resolve run by thread t, one step per shared access of
\* _resolve_recursive: the call, the test of the cache, the computation, the
\* assignment to _cached_instance, the read that is returned
Frame_thread ==
  UNCHANGED <<param_names_as_bindings, sub_containers, sub_registries, registry, latest,
              replaced_by>>

ThreadCall(t, r, prefer_defaults) ==
  /\ threads[t].pc = "idle"
  /\ registers[r].is_valid
  /\ threads' = [threads EXCEPT ![t] = [pc |-> "test", r |-> r,
                                        prefer_defaults |-> prefer_defaults,
                                        made |-> NoneV, ret |-> NoneV]]
  /\ Frame_thread
  /\ UNCHANGED <<registers, ninvocations, last, resolved_once>>

ThreadTest(t) ==
  /\ threads[t].pc = "test"
  /\ threads' = [threads EXCEPT ![t].pc = IF NeedsResolve(registers[threads[t].r])
                                          THEN "resolve" ELSE "return"]
  /\ Frame_thread
  /\ UNCHANGED <<registers, ninvocations, last, resolved_once>>

ThreadResolve(t) ==
  LET r == threads[t].r
      res == ResolveOne(Heap, r, <<>>, threads[t].prefer_defaults)
  IN  /\ threads[t].pc = "resolve"
      /\ res.h.ninv <= MaxInvocations
      /\ registers' = res.h.regs
      /\ ninvocations' = res.h.ninv
      /\ resolved_once' = res.h.done
      /\ Frame_thread
      /\ IF res.exc = "none"
         THEN /\ threads' = [threads EXCEPT ![t].pc = "assign", ![t].made = res.val]
              /\ UNCHANGED last
         ELSE /\ threads' = [threads EXCEPT ![t].pc = "idle"]
              /\ last' = [Outcome("resolve", registers[r].registry, r, registers[r].key,
                                  res.exc, NoneV, res.errs, res.h.trace)
                            EXCEPT !.flag = threads[t].prefer_defaults]

ThreadAssign(t) ==
  /\ threads[t].pc = "assign"
  /\ registers' = [registers EXCEPT ![threads[t].r].cached_instance = threads[t].made]
  /\ resolved_once' = resolved_once \cup {threads[t].r}
  /\ threads' = [threads EXCEPT ![t].pc = "return"]
  /\ Frame_thread
  /\ UNCHANGED <<ninvocations, last>>

ThreadReturn(t) ==
  LET r == threads[t].r
  IN  /\ threads[t].pc = "return"
      /\ threads' = [threads EXCEPT ![t].pc = "idle", ![t].ret = registers[r].cached_instance]
      /\ last' = [Outcome("resolve", registers[r].registry, r, registers[r].key, "none",
                          registers[r].cached_instance, <<>>, <<>>)
                    EXCEPT !.flag = threads[t].prefer_defaults]
      /\ Frame_thread
      /\ UNCHANGED <<registers, ninvocations, resolved_once>>

\* a resolving call whose failure also undoes the caches it filled
ResolvedUpTo_RollingBack(limit, op, g, r, key, prefer_defaults, res) ==
  /\ res.h.ninv <= limit
  /\ registers' = IF res.exc = "none" THEN res.h.regs ELSE registers
  /\ ninvocations' = res.h.ninv
  /\ resolved_once' = res.h.done
  /\ last' = [Outcome(op, g, r, key, res.exc, IF res.exc = "none" THEN res.val ELSE NoneV,
                      res.errs, res.h.trace)
                EXCEPT !.flag = prefer_defaults, !.stack = res.h.deque]
  /\ Unchanged_containers
  /\ UNCHANGED <<registry, latest, replaced_by>>

\* the new state after a resolving call that ended with res; a call that
\* raised leaves registers_in_resolving_process as it was when it raised
ResolvedUpTo(limit, op, g, r, key, prefer_defaults, res) ==
  /\ res.h.ninv <= limit
  /\ registers' = res.h.regs
  /\ ninvocations' = res.h.ninv
  /\ resolved_once' = res.h.done
  /\ last' = [Outcome(op, g, r, key, res.exc, IF res.exc = "none" THEN res.val ELSE NoneV,
                      res.errs, res.h.trace)
                EXCEPT !.flag = prefer_defaults, !.stack = res.h.deque]
  /\ Unchanged_containers
  /\ UNCHANGED <<registry, latest, replaced_by>>

\* Register.resolve
Resolved(op, g, r, key, prefer_defaults, res) ==
  ResolvedUpTo(MaxInvocations, op, g, r, key, prefer_defaults, res)

Resolve(r, prefer_defaults) ==
  Resolved("resolve", registers[r].registry, r, registers[r].key, prefer_defaults,
           RegisterResolve(r, prefer_defaults))

\* Container._resolve
ContainerResolve(op, g, registry_key, prefer_defaults) ==
  LET register == DictGetLocal(g, registry_key)
  IN  IF register = NoRec
      THEN Resolved(op, g, NoRec, registry_key, prefer_defaults,
                    Result(Heap, "ValueError:unknown", NoneV, <<>>, FALSE))
      ELSE Resolved(op, g, register, registry_key, prefer_defaults,
                    RegisterResolve(register, prefer_defaults))

\* Container.resolve_type
ResolveType(g, dependency_type, prefer_defaults) ==
  ContainerResolve("resolve_type", g, dependency_type, prefer_defaults)

\* Container.resolve_name
ResolveName(g, name, prefer_defaults) ==
  ContainerResolve("resolve_name", g, name, prefer_defaults)

(***************************************************************************)
(* Sub-containers.                                                         *)
(***************************************************************************)
RECURSIVE CheckCircular(_, _, _), CheckCircularSubs(_, _, _, _)
\* _check_for_circular_sub_containers_recursive: "yes", "no", or "loop" when
\* the search itself never returns
CheckCircular(src_container, dst_container, d) ==
  IF d = 0 THEN "loop"
  ELSE IF InSeq(dst_container, sub_containers[src_container]) THEN "yes"
  ELSE CheckCircularSubs(sub_containers[src_container], 1, dst_container, d - 1)
CheckCircularSubs(subs, i, dst_container, d) ==
  IF i > Len(subs) THEN "no"
  ELSE LET c == CheckCircular(subs[i], dst_container, d)
       IN  IF c = "no" THEN CheckCircularSubs(subs, i + 1, dst_container, d) ELSE c

\* d[name] = x on a dict kept in insertion order, keyed by the container's name
OrderedPut(seq, name) == IF InSeq(name, seq) THEN seq ELSE Append(seq, name)
\* d.pop(name)
OrderedPop(seq, name) == SelectSeq(seq, LAMBDA x : x # name)

Frame_topology == UNCHANGED <<param_names_as_bindings, registry, registers, ninvocations,
                              resolved_once, latest, replaced_by, threads>>

\* what every lookup of a key of Keys from every container gives
Lookups == [g \in AllContainers |-> [k \in Keys |-> GetItem(g, k, MaxDepth)]]

\* the sub-containers, the sub-registries, the lookups and the Registers
Snapshot ==
  [sub_containers |-> sub_containers, sub_registries |-> sub_registries,
   lookups |-> Lookups, registry |-> registry, registers |-> registers]

\* a remove_sub_container that leaves the registry's sub-registries alone
RemoveSubContainer_KeepingRegistry(g, sub_container_name) ==
  LET exc == IF InSeq(sub_container_name, sub_containers[g]) THEN "none" ELSE "KeyError"
  IN  /\ last' = Outcome("remove_sub_container", g, NoRec, sub_container_name, exc,
                         NoneV, <<>>, <<>>)
      /\ Frame_topology
      /\ IF exc = "none"
         THEN /\ sub_containers' = [sub_containers EXCEPT ![g] = OrderedPop(@, sub_container_name)]
              /\ UNCHANGED sub_registries
         ELSE UNCHANGED <<sub_containers, sub_registries>>

\* an add_sub_container that does not add the sub-container's registry
AddSubContainer_WithoutRegistry(g, sub_container) ==
  /\ last' = Outcome("add_sub_container", g, NoRec, sub_container, "none", NoneV, <<>>, <<>>)
  /\ Frame_topology
  /\ sub_containers' = [sub_containers EXCEPT ![g] = OrderedPut(@, sub_container)]
  /\ UNCHANGED sub_registries

\* Container.add_sub_container
AddSubContainer(g, sub_container) ==
  LET circular == CheckCircular(sub_container, g, MaxDepth + 1)
      exc == IF circular = "loop" THEN "RecursionError"
             ELSE IF circular = "yes" THEN "DiContainerError:circular" ELSE "none"
  IN  /\ last' = [Outcome("add_sub_container", g, NoRec, sub_container, exc, NoneV, <<>>, <<>>)
                    EXCEPT !.before = Snapshot]
      /\ Frame_topology
      /\ IF exc = "none"
         THEN /\ sub_containers' = [sub_containers EXCEPT ![g] = OrderedPut(@, sub_container)]
              /\ sub_registries' = [sub_registries EXCEPT ![g] = OrderedPut(@, sub_container)]
         ELSE UNCHANGED <<sub_containers, sub_registries>>

\* Container.remove_sub_container
RemoveSubContainer(g, sub_container_name) ==
  LET exc == IF InSeq(sub_container_name, sub_containers[g]) THEN "none" ELSE "KeyError"
  IN  /\ last' = Outcome("remove_sub_container", g, NoRec, sub_container_name, exc,
                         NoneV, <<>>, <<>>)
      /\ Frame_topology
      /\ IF exc = "none"
         THEN /\ sub_containers' = [sub_containers EXCEPT ![g] = OrderedPop(@, sub_container_name)]
              /\ sub_registries' = [sub_registries EXCEPT ![g] = OrderedPop(@, sub_container_name)]
         ELSE UNCHANGED <<sub_containers, sub_registries>>

(***************************************************************************)
(* The composition root.  Init is the state after Container("main") and    *)
(* Container("sub", param_names_as_bindings=False) are constructed.  Each  *)
(* specification lets the application make the calls of one concern, with  *)
(* arguments from the sets below.                                          *)
(***************************************************************************)
Instantiations == {"Singleton", "MultiInstance"}
BaseTypes == {"object", "Base"}
PositionalParams == {<<>>, <<Lit(1)>>}
PositionalNameBindings == {<<>>, <<"x">>}
ExplicitValues == {NoneV, Lit(1)}
LocalValue(g) == IF g = "main" THEN Lit(2) ELSE Lit(3)
TopologyContainers == {"main", "sub", "leaf"}
AttachEdges == {<<"main", "main">>, <<"main", "sub">>, <<"main", "leaf">>, <<"sub", "leaf">>}
TreeEdges == {<<"main", "sub">>, <<"main", "sub2">>, <<"main", "main">>,
              <<"sub", "leaf">>, <<"sub2", "leaf">>, <<"sub", "sub2">>}
ExcessParams == {<<Lit(1)>>, <<Lit(1), Lit(3)>>}
ExcessNameBindings == {<<"x", "y">>, <<"y", "x">>}
ExcessKeywordParams ==
  {<<[k |-> "z", v |-> Lit(3)]>>, <<[k |-> "x", v |-> Lit(1)], [k |-> "z", v |-> Lit(3)]>>}
ExcessKeywordNameBindings ==
  {<<[k |-> "z", v |-> "x"]>>, <<[k |-> "x", v |-> "x"], [k |-> "z", v |-> "x"]>>}

Init ==
  /\ param_names_as_bindings = [g \in AllContainers |-> g = "main"]
  /\ sub_containers = [g \in AllContainers |-> <<>>]
  /\ sub_registries = [g \in AllContainers |-> <<>>]
  /\ registry = [g \in AllContainers |-> [k \in Keys |-> NoRec]]
  /\ registers = <<>>
  /\ ninvocations = 0
  /\ last = Outcome("init", "main", NoRec, NoKey, "none", NoneV, <<>>, <<>>)
  /\ resolved_once = {}
  /\ latest = [g \in AllContainers |-> [k \in Keys |-> NoRec]]
  /\ replaced_by = <<>>
  /\ threads = [t \in Threads |-> Idle]

\* The life cycle of the Registers of one container: configuring, binding,
\* replacing, invalidating, resolving.
Next ==
  \/ RegisterType("main", "A", "Singleton")
  \/ RegisterValue("main", Lit(1))
  \/ \E r \in RecIds, p \in PositionalParams : WithParams(r, p, EmptyDict)
  \/ \E r \in RecIds, p \in PositionalNameBindings : WithNameBindings(r, p, EmptyDict)
  \/ \E r \in RecIds, replace \in BOOLEAN : ToType(r, "Base", replace)
  \/ \E r \in RecIds, t \in BaseTypes, replace \in BOOLEAN : ToName(r, "x", t, replace)
  \/ \E r \in RecIds, p \in BOOLEAN : Resolve(r, p)
  \/ \E p \in BOOLEAN : ResolveType("main", "Base", p)
  \/ \E p \in BOOLEAN : ResolveName("main", "x", p)

Spec == Init /\ [][Next]_vars

\* Caching: Singleton and MultiInstance producers, resolved directly, through
\* the container and as the dependency of another Register (Dep's parameter
\* is looked up by its annotation, Base).
NextCache ==
  \/ \E t \in {"A", "Dep"}, i \in Instantiations : RegisterType("main", t, i)
  \/ RegisterCallable("main", "make_none", "Singleton", NoType)
  \/ \E r \in RecIds, replace \in BOOLEAN : ToType(r, "Base", replace)
  \/ \E r \in RecIds, p \in BOOLEAN : Resolve(r, p)
  \/ \E p \in BOOLEAN : ResolveType("main", "Base", p)

SpecCache == Init /\ [][NextCache]_vars

\* Configuring and binding: positional values and positional name bindings
\* given and withdrawn, binding to two keys with and without replace.
NextConfig ==
  \/ RegisterType("main", "A", "Singleton")
  \/ \E r \in RecIds, p \in PositionalParams : WithParams(r, p, EmptyDict)
  \/ \E r \in RecIds, p \in PositionalNameBindings : WithNameBindings(r, p, EmptyDict)
  \/ \E r \in RecIds, replace \in BOOLEAN : ToType(r, "Base", replace)
  \/ \E r \in RecIds, replace \in BOOLEAN : ToName(r, "x", "object", replace)

SpecConfig == Init /\ [][NextConfig]_vars

\* Invalidation: Registers that are configured into the conflict of
\* positional inputs, before or after they are bound or resolved, and every
\* call a Register accepts made on them afterwards.
NextInvalidated ==
  \/ RegisterType("main", "A", "Singleton")
  \/ \E r \in RecIds : WithParams(r, <<Lit(1)>>, EmptyDict)
  \/ \E r \in RecIds : WithNameBindings(r, <<"x">>, EmptyDict)
  \/ \E r \in RecIds : ToType(r, "Base", FALSE)
  \/ \E r \in RecIds : ToName(r, "x", "object", FALSE)
  \/ \E r \in RecIds : Resolve(r, FALSE)

SpecInvalidated == Init /\ [][NextInvalidated]_vars

\* Binding with type checks: a type and a value, bound to a type key and to a
\* name with a base type, with and without replace, and resolved.
NextBind ==
  \/ RegisterType("main", "A", "Singleton")
  \/ RegisterValue("main", Lit(1))
  \/ \E r \in RecIds, replace \in BOOLEAN : ToType(r, "Base", replace)
  \/ \E r \in RecIds, t \in BaseTypes, replace \in BOOLEAN : ToName(r, "x", t, replace)
  \/ \E r \in RecIds, p \in BOOLEAN : Resolve(r, p)
  \/ \E p \in BOOLEAN : ResolveType("main", "Base", p)
  \/ \E p \in BOOLEAN : ResolveName("main", "x", p)

SpecBind == Init /\ [][NextBind]_vars

\* Dependency cycles: Dep requires Base by its annotation, Wrap (a Base)
\* requires x by its parameter's name; an explicit value breaks the cycle.
NextCycle ==
  \/ \E t \in {"Dep", "Wrap"} : RegisterType("main", t, "Singleton")
  \/ \E r \in RecIds, p \in PositionalParams : WithParams(r, p, EmptyDict)
  \/ \E r \in RecIds : ToType(r, "Base", FALSE)
  \/ \E r \in RecIds : ToName(r, "x", "object", FALSE)
  \/ \E r \in RecIds, p \in BOOLEAN : Resolve(r, p)
  \/ \E p \in BOOLEAN : ResolveType("main", "Base", p)
  \/ \E p \in BOOLEAN : ResolveName("main", "x", p)

SpecCycle == Init /\ [][NextCycle]_vars

\* Explicit values: a producer with a default (make_a) and one without (Wrap)
\* are given a value, None included, by position or by keyword, while the
\* parameter's name may be a registered key.
NextExplicit ==
  \/ RegisterCallable("main", "make_a", "MultiInstance", "A")
  \/ RegisterType("main", "Wrap", "MultiInstance")
  \/ RegisterValue("main", Lit(2))
  \/ \E r \in RecIds, v \in ExplicitValues : WithParams(r, <<v>>, EmptyDict)
  \/ \E r \in RecIds, v \in ExplicitValues : WithParams(r, <<>>, <<[k |-> "x", v |-> v]>>)
  \/ \E r \in RecIds : ToName(r, "x", "object", FALSE)
  \/ \E r \in RecIds, p \in BOOLEAN : Resolve(r, p)

SpecExplicit == Init /\ [][NextExplicit]_vars

\* The order of the strategies for one parameter: opt(x: int = 7) and
\* opt_none(x: int = None) with an explicit value or a name binding to y,
\* while values are bound to the annotation int, to the parameter's name x
\* or to y.
NextOrder ==
  \/ \E f \in {"opt", "opt_none"} : RegisterCallable("main", f, "MultiInstance", NoType)
  \/ RegisterValue("main", Lit(2))
  \/ \E r \in RecIds : WithParams(r, <<Lit(1)>>, EmptyDict)
  \/ \E r \in RecIds : WithNameBindings(r, <<>>, <<[k |-> "x", v |-> "y"]>>)
  \/ \E r \in RecIds : ToType(r, "int", FALSE)
  \/ \E r \in RecIds, n \in NameKeys : ToName(r, n, "object", FALSE)
  \/ \E r \in RecIds, p \in BOOLEAN : Resolve(r, p)

SpecOrder == Init /\ [][NextOrder]_vars

\* Wrap(x) registered in a container that uses parameter names as bindings
\* (main) and in one that does not (sub), while a value is bound to the name x.
NextNames ==
  \/ \E g \in Containers : RegisterType(g, "Wrap", "MultiInstance")
  \/ \E g \in Containers : RegisterValue(g, Lit(2))
  \/ \E r \in RecIds : WithParams(r, <<Lit(1)>>, EmptyDict)
  \/ \E r \in RecIds : ToName(r, "x", "object", FALSE)
  \/ \E r \in RecIds, p \in BOOLEAN : Resolve(r, p)

SpecNames == Init /\ [][NextNames]_vars

\* Pair(x: Base, y) and Wrap(x): the parameters that resolve finds
\* unresolvable, in the Register itself and in the Register of a dependency.
NextErrors ==
  \/ \E t \in {"Pair", "Wrap"} : RegisterType("main", t, "Singleton")
  \/ RegisterValue("main", Lit(2))
  \/ \E r \in RecIds : WithParams(r, <<Lit(1)>>, EmptyDict)
  \/ \E r \in RecIds : ToType(r, "Base", FALSE)
  \/ \E r \in RecIds, n \in NameKeys : ToName(r, n, "object", FALSE)
  \/ \E r \in RecIds, p \in BOOLEAN : Resolve(r, p)

SpecErrors == Init /\ [][NextErrors]_vars

\* More positional values or positional name bindings than declared
\* parameters, for va(x, *args, **kwargs) and for Wrap(x).
NextVarArgs ==
  \/ RegisterCallable("main", "va", "MultiInstance", NoType)
  \/ RegisterType("main", "Wrap", "MultiInstance")
  \/ RegisterValue("main", Lit(2))
  \/ \E r \in RecIds, p \in ExcessParams : WithParams(r, p, EmptyDict)
  \/ \E r \in RecIds, b \in ExcessNameBindings : WithNameBindings(r, b, EmptyDict)
  \/ \E r \in RecIds, n \in NameKeys : ToName(r, n, "object", FALSE)
  \/ \E r \in RecIds, p \in BOOLEAN : Resolve(r, p)

SpecVarArgs == Init /\ [][NextVarArgs]_vars

\* Keyword values and keyword name bindings with names the producer does not
\* declare, for va(x, *args, **kwargs) and for Wrap(x).
NextVarKw ==
  \/ RegisterCallable("main", "va", "MultiInstance", NoType)
  \/ RegisterType("main", "Wrap", "MultiInstance")
  \/ RegisterValue("main", Lit(2))
  \/ \E r \in RecIds, k \in ExcessKeywordParams : WithParams(r, <<>>, k)
  \/ \E r \in RecIds, b \in ExcessKeywordNameBindings : WithNameBindings(r, <<>>, b)
  \/ \E r \in RecIds : ToName(r, "x", "object", FALSE)
  \/ \E r \in RecIds, p \in BOOLEAN : Resolve(r, p)

SpecVarKw == Init /\ [][NextVarKw]_vars

\* The name x bound in a container and in its sub-container, to different
\* values or to Wrap(x), in any order of binding and attaching.
NextLocal ==
  \/ \E g \in Containers : RegisterValue(g, LocalValue(g))
  \/ RegisterType("main", "Wrap", "MultiInstance")
  \/ \E r \in RecIds, replace \in BOOLEAN : ToName(r, "x", "object", replace)
  \/ \E g \in Containers : \E s \in Containers \ {g} : AddSubContainer(g, s)
  \/ \E g \in Containers : \E s \in Containers \ {g} : RemoveSubContainer(g, s)
  \/ \E r \in RecIds : Resolve(r, FALSE)
  \/ \E g \in Containers : ResolveName(g, "x", FALSE)

SpecLocal == Init /\ [][NextLocal]_vars

\* Four containers attached to one another, main also to itself, with the
\* name x bound in any two of them, and the lookup of x from each.
NextTree ==
  \/ \E g \in AllContainers : RegisterValue(g, Lit(2))
  \/ \E r \in RecIds : ToName(r, "x", "object", FALSE)
  \/ \E e \in TreeEdges : AddSubContainer(e[1], e[2])
  \/ \E s \in AllContainers : RemoveSubContainer("main", s)
  \/ \E g \in AllContainers : GetItemCall(g, "x")

SpecTree == Init /\ [][NextTree]_vars

\* Three containers: every attachment, of a container to itself too, and
\* every detachment by name.
NextTopology ==
  \/ \E g \in TopologyContainers, s \in TopologyContainers : AddSubContainer(g, s)
  \/ \E g \in TopologyContainers, s \in TopologyContainers : RemoveSubContainer(g, s)

SpecTopology == Init /\ [][NextTopology]_vars

\* Registers of values, None among them, next to Wrap(x): configuring,
\* binding to the name x and resolving them.
NextValue ==
  \/ \E v \in ExplicitValues : RegisterValue("main", v)
  \/ RegisterType("main", "Wrap", "MultiInstance")
  \/ \E r \in RecIds, p \in PositionalParams : WithParams(r, p, EmptyDict)
  \/ \E r \in RecIds, b \in PositionalNameBindings : WithNameBindings(r, b, EmptyDict)
  \/ \E r \in RecIds : ToName(r, "x", "object", FALSE)
  \/ \E r \in RecIds, p \in BOOLEAN : Resolve(r, p)
  \/ \E p \in BOOLEAN : ResolveName("main", "x", p)

SpecValue == Init /\ [][NextValue]_vars

\* Values bound to the name x in sub and leaf, while the containers are
\* attached, attached again and detached.
NextAttach ==
  \/ \E g \in {"sub", "leaf"} : RegisterValue(g, Lit(2))
  \/ \E r \in RecIds : ToName(r, "x", "object", FALSE)
  \/ \E e \in AttachEdges : AddSubContainer(e[1], e[2])
  \/ \E e \in AttachEdges : RemoveSubContainer(e[1], e[2])

SpecAttach == Init /\ [][NextAttach]_vars

\* The three kinds of Register created in main and in its sub-container sub,
\* bound to the name x and resolved by it.
NextRegister ==
  \/ \E g \in Containers : RegisterType(g, "Wrap", "Singleton")
  \/ \E g \in Containers : RegisterCallable(g, "make_a", "MultiInstance", NoType)
  \/ \E g \in Containers : RegisterValue(g, Lit(2))
  \/ \E r \in RecIds, replace \in BOOLEAN : ToName(r, "x", "object", replace)
  \/ AddSubContainer("main", "sub")
  \/ \E g \in Containers : ResolveName(g, "x", FALSE)

SpecRegister == Init /\ [][NextRegister]_vars

\* Wrap(x) and Dep(x: Base) bound to Base and to names, in two containers
\* that are attached to each other or to themselves, and resolved by key.
NextTerminate ==
  \/ \E g \in Containers, t \in {"Wrap", "Dep"} : RegisterType(g, t, "Singleton")
  \/ \E r \in RecIds : ToType(r, "Base", FALSE)
  \/ \E r \in RecIds, n \in NameKeys : ToName(r, n, "object", FALSE)
  \/ \E g \in Containers, s \in Containers : AddSubContainer(g, s)
  \/ \E g \in Containers, s \in Containers : RemoveSubContainer(g, s)
  \/ \E g \in Containers, p \in BOOLEAN : ResolveType(g, "Base", p)
  \/ \E g \in Containers, n \in NameKeys, p \in BOOLEAN : ResolveName(g, n, p)

SpecTerminate == Init /\ [][NextTerminate]_vars

\* One Register of each variant in main, a callable with and without a
\* declared return type, bound to names with and without replace.
NextConflict ==
  \/ RegisterType("main", "Wrap", "Singleton")
  \/ RegisterValue("main", Lit(2))
  \/ \E rt \in {NoType, "A"} : RegisterCallable("main", "make_a", "MultiInstance", rt)
  \/ \E r \in RecIds, n \in NameKeys, replace \in BOOLEAN : ToName(r, n, "object", replace)
  \/ \E n \in NameKeys : ResolveName("main", n, FALSE)

SpecConflict == Init /\ [][NextConflict]_vars

\* The Registers created for one of the producers fs
Producing(fs) == {r \in RecIds : registers[r].function \in fs}

\* Three Registers in main: Wrap(x) with a name binding to y, the callables
\* opt(x: int = 7) and make_none(), and the value 2; Wrap resolves what y is
\* bound to, opt resolves what int is bound to.
NextNested ==
  \/ CreateUpTo(MaxNested, "main",
                NewRegister("TypeRegister", "main", "Wrap", "Wrap", "MultiInstance",
                            param_names_as_bindings["main"], NoneV), "register_type")
  \/ \E f \in {"opt", "make_none"} :
       CreateUpTo(MaxNested, "main",
                  NewRegister("CallableRegister", "main", f, NoType, "MultiInstance",
                              param_names_as_bindings["main"], NoneV), "register_callable")
  \/ CreateUpTo(MaxNested, "main",
                NewRegister("ValueRegister", "main", "<value>", NoType, "Singleton", FALSE,
                            Lit(2)), "register_value")
  \/ \E r \in Producing({"Wrap"}) : WithNameBindings(r, <<"y">>, EmptyDict)
  \/ \E r \in Producing({"make_none", "<value>"}) : ToType(r, "int", FALSE)
  \/ \E r \in Producing({"opt"}) : ToName(r, "y", "object", FALSE)
  \/ \E r \in RecIds, p \in BOOLEAN :
       ResolvedUpTo(MaxNested, "resolve", registers[r].registry, r, registers[r].key, p,
                    RegisterResolve(r, p))

SpecNested == Init /\ [][NextNested]_vars

\* Pair(x: Base, y) with both parameters bound to the name x, and A() or
\* Wrap(x) bound to x: the same Register serves two parameters of one producer.
NextSiblings ==
  \/ \E t \in {"Pair", "A", "Wrap"} : RegisterType("main", t, "MultiInstance")
  \/ \E r \in Producing({"Pair"}) : WithNameBindings(r, <<"x", "x">>, EmptyDict)
  \/ \E r \in Producing({"A", "Wrap"}) : ToName(r, "x", "object", FALSE)
  \/ \E r \in RecIds, p \in BOOLEAN :
       ResolvedUpTo(MaxNested, "resolve", registers[r].registry, r, registers[r].key, p,
                    RegisterResolve(r, p))

SpecSiblings == Init /\ [][NextSiblings]_vars

\* Two threads resolving the Registers of A(), Singleton or MultiInstance.
NextThreads ==
  \/ \E i \in Instantiations : RegisterType("main", "A", i)
  \/ \E t \in Threads, r \in RecIds : ThreadCall(t, r, FALSE)
  \/ \E t \in Threads : ThreadTest(t)
  \/ \E t \in Threads : ThreadResolve(t)
  \/ \E t \in Threads : ThreadAssign(t)
  \/ \E t \in Threads : ThreadReturn(t)

SpecThreads == Init /\ [][NextThreads]_vars

\* Registers of main and sub that are configured, invalidated, bound to
\* names and replaced.
NextEntries ==
  \/ \E g \in Containers : RegisterType(g, "Wrap", "Singleton")
  \/ \E r \in RecIds : WithParams(r, <<Lit(1)>>, EmptyDict)
  \/ \E r \in RecIds : WithNameBindings(r, <<"x">>, EmptyDict)
  \/ \E r \in RecIds, n \in NameKeys, replace \in BOOLEAN : ToName(r, n, "object", replace)

SpecEntries == Init /\ [][NextEntries]_vars

\* The Singletons Pair(x: Base, y), A() and Wrap(x), bound to Base, x or y,
\* given one or two explicit values, and resolved before and after the
\* missing parts are there.
NextFailure ==
  \/ \E t \in {"Pair", "A", "Wrap"} : RegisterType("main", t, "Singleton")
  \/ \E r \in Producing({"A", "Wrap"}) : ToType(r, "Base", FALSE)
  \/ \E r \in Producing({"Wrap"}) : ToName(r, "x", "object", FALSE)
  \/ \E r \in Producing({"A"}) : ToName(r, "y", "object", FALSE)
  \/ \E r \in Producing({"Pair", "Wrap"}), p \in ExcessParams : WithParams(r, p, EmptyDict)
  \/ \E r \in RecIds : Resolve(r, FALSE)

SpecFailure == Init /\ [][NextFailure]_vars

\* Wrap(x) in main and in sub, which does not use parameter names as keys,
\* and a value in main; Wrap is given a name binding to y; sub is attached
\* to main.
NextOwner ==
  \/ \E g \in Containers : RegisterType(g, "Wrap", "MultiInstance")
  \/ RegisterValue("main", Lit(2))
  \/ \E r \in Producing({"Wrap"}) : WithNameBindings(r, <<"y">>, EmptyDict)
  \/ \E r \in RecIds, n \in NameKeys : ToName(r, n, "object", FALSE)
  \/ AddSubContainer("main", "sub")
  \/ \E r \in RecIds : Resolve(r, FALSE)
  \/ \E n \in NameKeys : ResolveName("main", n, FALSE)

SpecOwner == Init /\ [][NextOwner]_vars

\* Two containers: binding and resolving through the chain of sub-registries.
NextChain ==
  \/ \E g \in Containers : RegisterType(g, "A", "Singleton")
  \/ \E g \in Containers : RegisterCallable(g, "make_none", "Singleton", NoType)
  \/ \E r \in RecIds, replace \in BOOLEAN : ToType(r, "Base", replace)
  \/ \E g \in Containers, p \in BOOLEAN : ResolveType(g, "Base", p)
  \/ \E g \in Containers : \E s \in Containers \ {g} : AddSubContainer(g, s)
  \/ \E g \in Containers : \E s \in Containers \ {g} : RemoveSubContainer(g, s)

SpecChain == Init /\ [][NextChain]_vars

TypeOK ==
  /\ \A g \in Containers, k \in Keys : registry[g][k] \in RecIds \cup {NoRec}
  /\ ninvocations \in 0..MaxNested
  /\ Len(registers) <= MaxNested

(***************************************************************************)
(* Properties.  A step's call and outcome are read from last' and its      *)
(* pre-state from the unprimed variables.                                  *)
(***************************************************************************)
BindOps == {"to_type", "to_name"}
ContainerResolveOps == {"resolve_type", "resolve_name"}
ResolveOps == ContainerResolveOps \cup {"resolve"}

\* C1: once a resolve of a Singleton Register has succeeded, every later
\* resolution of it (direct, through the container, or nested) returns the
\* instance it holds and does not invoke the producer again.
C1_SingletonNeverRecomputed ==
  [][\A i \in DOMAIN last'.trace :
       LET e == last'.trace[i]
       IN  (registers[e.r].instantiation = "Singleton" /\ e.r \in resolved_once)
           => (e.ev = "cached" /\ e.val = registers[e.r].cached_instance)]_vars

\* C1, where it fails: the only Register is a Singleton whose producer
\* returns None, and its second successful resolve has made the second
\* producer invocation
C1_NoneProducerInvoked ==
  /\ Len(registers) = 1
  /\ registers[1].instantiation = "Singleton"
  /\ 1 \in resolved_once
  /\ last.op \in ResolveOps
  /\ last.exc = "none"
  /\ last.val = NoneV
  /\ ninvocations = 2

\* C2: every resolution of a MultiInstance Register invokes the producer: it
\* is never served from the cache, the instance it yields was not constructed
\* before the call, and a successful top-level resolve returns the instance
\* of its own invocation.
C2_MultiInstanceRecomputes ==
  [][/\ \A i \in DOMAIN last'.trace :
          LET e == last'.trace[i]
          IN  registers[e.r].instantiation = "MultiInstance"
              => (e.ev = "call" /\ (e.val # NoneV => e.val.id > ninvocations))
     /\ (/\ last'.op \in ResolveOps
         /\ last'.exc = "none"
         /\ last'.r \in RecIds
         /\ registers[last'.r].instantiation = "MultiInstance")
        => /\ last'.trace # <<>>
           /\ last'.trace[Len(last'.trace)].ev = "call"
           /\ last'.trace[Len(last'.trace)].r = last'.r
           /\ last'.trace[Len(last'.trace)].val = last'.val]_vars

\* C2 happens: the only Register is MultiInstance and a resolve of it has
\* returned the second object constructed
C2_SecondInstance ==
  /\ Len(registers) = 1
  /\ registers[1].instantiation = "MultiInstance"
  /\ last.op \in ResolveOps
  /\ last.exc = "none"
  /\ last.val.id = 2
  /\ ninvocations = 2

\* C3: resolve_type/resolve_name ends with the unknown-key error exactly when
\* the key is absent from the container's whole chain of registries.
C3_UnknownOnlyWhenAbsentFromChain ==
  last.op \in ContainerResolveOps
  => ((last.exc = "ValueError:unknown") <=> (Contains(last.c, last.key, MaxDepth) = "no"))

\* C3, where it fails: the key is bound in an attached sub-container only and
\* the resolve on the parent ended with the unknown-key error
C3_SubContainerKeyUnknown ==
  /\ last.op \in ContainerResolveOps
  /\ last.exc = "ValueError:unknown"
  /\ ~LocalHas(last.c, last.key)
  /\ Contains(last.c, last.key, MaxDepth) = "yes"

\* C4: to_type/to_name with replace=False on a valid, unbound Register, for a
\* key that has a Register in the chain of registries, ends with the
\* key-conflict error and changes no registry and no Register.
C4_ConflictRejected ==
  [][(/\ last'.op \in BindOps
      /\ last'.r \in RecIds
      /\ registers[last'.r].is_valid
      /\ registers[last'.r].key = NoKey
      /\ ~last'.flag
      /\ Contains(last'.c, last'.key, MaxDepth) = "yes")
     => (/\ last'.exc = "ValueError:conflict"
         /\ registry' = registry
         /\ registers' = registers)]_vars

\* C4, where it fails: a binding call without replace has ended with
\* AttributeError, raised while the conflict message was built
C4_ConflictMessageFails ==
  /\ last.op \in BindOps
  /\ ~last.flag
  /\ last.exc = "AttributeError"

\* C5: while the Register that was last bound to a key with replace, over an
\* occupant, is valid, every resolve_type/resolve_name of the key on that
\* container is served by that Register.
C5_ResolvesReplacement ==
  (/\ last.op \in ContainerResolveOps
   /\ latest[last.c][last.key] # NoRec
   /\ registers[latest[last.c][last.key]].is_valid
   /\ \E o \in RecIds : replaced_by[o] = latest[last.c][last.key])
  => last.r = latest[last.c][last.key]

\* C5, where it fails: the replacement is valid and bound to the key, but the
\* key's resolve ended with the unknown-key error
C5_ReplacementLost ==
  /\ last.op \in ContainerResolveOps
  /\ last.exc = "ValueError:unknown"
  /\ latest[last.c][last.key] # NoRec
  /\ registers[latest[last.c][last.key]].is_valid
  /\ registers[latest[last.c][last.key]].key = last.key
  /\ \E o \in RecIds : replaced_by[o] = latest[last.c][last.key]

\* C6: a Register that was superseded at its key by a bind with replace is
\* invalidated.
C6_SupersededInvalidated ==
  \A r \in RecIds : replaced_by[r] # NoRec => ~registers[r].is_valid

\* C6, where it fails: a superseded Register has accepted with_params
C6_SupersededConfigured ==
  /\ last.op = "with_params"
  /\ last.exc = "none"
  /\ last.r \in RecIds
  /\ replaced_by[last.r] # NoRec

\* C7 as stated: every to_type/to_name on a Register that is bound to a key
\* ends with the duplicate-binding error and changes no Register and no
\* registry.
C7_RebindIsDuplicateBinding ==
  [][(/\ last'.op \in BindOps
      /\ last'.r \in RecIds
      /\ registers[last'.r].key # NoKey)
     => (/\ last'.exc = "DiContainerError:bound"
         /\ registers' = registers
         /\ registry' = registry)]_vars

\* C7 amended: every to_type/to_name on a Register that is bound to a key
\* fails and changes no Register and no registry; the error is the
\* duplicate-binding error when the Register is valid and the validity error
\* when it has been invalidated since it was bound.
C7_RebindRejected ==
  [][(/\ last'.op \in BindOps
      /\ last'.r \in RecIds
      /\ registers[last'.r].key # NoKey)
     => (/\ last'.exc = (IF registers[last'.r].is_valid
                         THEN "DiContainerError:bound" ELSE "DiContainerError:validity")
         /\ registers' = registers
         /\ registry' = registry)]_vars

\* C7 happens: a Register bound to one key was asked, with replace, to bind to
\* another key and the call ended with the duplicate-binding error
C7_SecondBindRefused ==
  /\ last.op \in BindOps
  /\ last.exc = "DiContainerError:bound"
  /\ last.flag
  /\ last.r \in RecIds
  /\ registers[last.r].key \notin {NoKey, last.key}

\* C8: an invalidated Register never changes again (validity, configuration,
\* key, cache), and every with_params, with_name_bindings, to_type, to_name
\* and resolve on it ends with the validity error and changes no registry.
C8_InvalidatedIsInert ==
  [][\A r \in RecIds :
       ~registers[r].is_valid
       => /\ registers'[r] = registers[r]
          /\ (last'.r = r /\ last'.op \in BindOps \cup {"with_params", "with_name_bindings",
                                                         "resolve"})
             => (last'.exc = "DiContainerError:validity" /\ registry' = registry)]_vars

\* C8 happens: resolve was called on an invalidated Register and ended with
\* the validity error
C8_ResolveOfInvalidated ==
  /\ last.op = "resolve"
  /\ last.r \in RecIds
  /\ ~registers[last.r].is_valid
  /\ last.exc = "DiContainerError:validity"

C10_PositionalInputsExclusive ==
  [][/\ \A r \in DOMAIN registers' :
          registers'[r].is_valid
          => \/ registers'[r].given_positional_params = <<>>
             \/ registers'[r].given_positional_name_bindings = <<>>
     /\ (/\ last'.r \in RecIds
         /\ registers[last'.r].is_valid
         /\ registers[last'.r].cls # "ValueRegister"
         /\ last'.npos > 0
         /\ \/ /\ last'.op = "with_params"
               /\ registers[last'.r].given_positional_name_bindings # <<>>
            \/ /\ last'.op = "with_name_bindings"
               /\ registers[last'.r].given_positional_params # <<>>)
        => last'.exc = "DiContainerError:positional"]_vars

\* C10 happens: with_params with a positional value, on a Register that had
\* positional name bindings, has ended with the configuration error
C10_ValuesAfterBindings ==
  /\ last.op = "with_params"
  /\ last.npos > 0
  /\ last.exc = "DiContainerError:positional"
  /\ last.r \in RecIds
  /\ registers[last.r].given_positional_name_bindings # <<>>

\* C11: when a resolve re-enters a Register that is in its resolving process
\* (a circular error is recorded), the call ends with the aggregated
\* resolution error and no Register that was in the resolving process at
\* that moment has its producer invoked by the call.
C11_CycleFailsWithoutInvocation ==
  [][\A i \in DOMAIN last'.errs :
       last'.errs[i].e = "circular"
       => /\ last'.exc = "DiContainerError:resolve"
          /\ \A j \in DOMAIN last'.trace :
               last'.trace[j].ev = "call"
               => ~InSeq(last'.trace[j].r, last'.errs[i].stack)]_vars

\* C11 happens: a resolve_type has ended with the resolution error on a cycle
\* of two Registers (Wrap bound to Base, Dep bound to x) and invoked nothing
C11_TwoCycle ==
  /\ last.op = "resolve_type"
  /\ last.exc = "DiContainerError:resolve"
  /\ last.trace = <<>>
  /\ ninvocations = 0
  /\ \E i \in DOMAIN last.errs :
       /\ last.errs[i].e = "circular"
       /\ Len(last.errs[i].stack) = 2

\* the value given to declared positional parameter i of reg by with_params
HasExplicit(reg, i) ==
  \/ i <= Len(reg.given_positional_params)
  \/ DictHas(reg.given_keyword_params, Signature(reg.function).args[i].name)
Explicit(reg, i) ==
  IF i <= Len(reg.given_positional_params) THEN reg.given_positional_params[i]
  ELSE DictGet(reg.given_keyword_params, Signature(reg.function).args[i].name)

\* C12: every producer invocation passes, for each declared parameter that
\* was given an explicit value (by position, else by keyword name), exactly
\* that value.
C12_ExplicitValuePassed ==
  [][\A j \in DOMAIN last'.trace :
       LET e == last'.trace[j]
       IN  e.ev = "call"
           => \A i \in DOMAIN Signature(registers[e.r].function).args :
                HasExplicit(registers[e.r], i) => e.args[i] = Explicit(registers[e.r], i)]_vars

\* C12, where it fails: make_a(x=7) was given the explicit value None and has
\* been invoked with its default
C12_NoneReplacedByDefault ==
  /\ last.op = "resolve"
  /\ last.exc = "none"
  /\ registers[last.r].function = "make_a"
  /\ registers[last.r].given_positional_params = <<NoneV>>
  /\ last.trace # <<>>
  /\ last.trace[Len(last.trace)].args = <<Lit(7)>>

\* the name binding given for declared positional parameter i of reg
HasBinding(reg, i) ==
  \/ i <= Len(reg.given_positional_name_bindings)
  \/ DictHas(reg.given_keyword_name_bindings, Signature(reg.function).args[i].name)
Binding(reg, i) ==
  IF i <= Len(reg.given_positional_name_bindings) THEN reg.given_positional_name_bindings[i]
  ELSE DictGet(reg.given_keyword_name_bindings, Signature(reg.function).args[i].name)

\* v is what the key yields when the Register found for it holds a value
FromKey(g, key, v) ==
  registers[GetItem(g, key, MaxDepth)].cls = "ValueRegister"
  => v = registers[GetItem(g, key, MaxDepth)].cached_instance

\* v is the argument that the order of the strategies gives to declared
\* positional parameter i of reg: explicit value, name binding, preferred
\* default, declared type, parameter name, default
ByStrictOrder(reg, i, prefer_defaults, v) ==
  LET param == Signature(reg.function).args[i]
      g == reg.registry
  IN  IF HasExplicit(reg, i) THEN v = Explicit(reg, i)
      ELSE IF HasBinding(reg, i) /\ Contains(g, Binding(reg, i), MaxDepth) = "yes"
      THEN FromKey(g, Binding(reg, i), v)
      ELSE IF prefer_defaults /\ param.has_default THEN v = param.default
      ELSE IF param.annotation # NoType /\ Contains(g, param.annotation, MaxDepth) = "yes"
      THEN FromKey(g, param.annotation, v)
      ELSE IF reg.param_names_as_bindings /\ Contains(g, param.name, MaxDepth) = "yes"
      THEN FromKey(g, param.name, v)
      ELSE param.has_default /\ v = param.default

\* C13: when a resolve invokes the producer of the Register it was called
\* for, each declared parameter's argument comes from the first strategy
\* that applies, in the order explicit value, name binding, preferred
\* default, declared type, parameter name, default.
C13_StrictOrder ==
  [][(/\ last'.op \in ResolveOps
      /\ last'.exc = "none"
      /\ last'.trace # <<>>
      /\ last'.trace[Len(last'.trace)].ev = "call"
      /\ last'.trace[Len(last'.trace)].r = last'.r)
     => \A i \in DOMAIN Signature(registers[last'.r].function).args :
          ByStrictOrder(registers[last'.r], i, last'.flag,
                        last'.trace[Len(last'.trace)].args[i])]_vars

\* C13, where it fails: opt(x: int = 7) has a name binding to a key that is
\* not registered, int is registered, and opt was invoked with its default
C13_DeclaredTypeSkipped ==
  /\ last.op = "resolve"
  /\ last.exc = "none"
  /\ ~last.flag
  /\ registers[last.r].function = "opt"
  /\ DictHas(registers[last.r].given_keyword_name_bindings, "x")
  /\ ~LocalHas("main", "y")
  /\ LocalHas("main", "int")
  /\ last.trace # <<>>
  /\ last.trace[Len(last.trace)].args = <<Lit(7)>>

\* C14: when a resolve with prefer_defaults=True invokes the producer of the
\* Register it was called for, every declared parameter that has a default
\* and neither an explicit value nor a name binding receives its default.
C14_PreferredDefaultUsed ==
  [][(/\ last'.op \in ResolveOps
      /\ last'.flag
      /\ last'.exc = "none"
      /\ last'.trace # <<>>
      /\ last'.trace[Len(last'.trace)].ev = "call"
      /\ last'.trace[Len(last'.trace)].r = last'.r)
     => \A i \in DOMAIN Signature(registers[last'.r].function).args :
          (/\ Signature(registers[last'.r].function).args[i].has_default
           /\ ~HasExplicit(registers[last'.r], i)
           /\ ~HasBinding(registers[last'.r], i))
          => last'.trace[Len(last'.trace)].args[i] =
               Signature(registers[last'.r].function).args[i].default]_vars

\* C14, where it fails: opt_none(x: int = None), resolved with
\* prefer_defaults=True while x is a registered name, was invoked with the
\* value registered for x
C14_NoneDefaultReplaced ==
  /\ last.op = "resolve"
  /\ last.exc = "none"
  /\ last.flag
  /\ registers[last.r].function = "opt_none"
  /\ registers[last.r].given_positional_params = <<>>
  /\ registers[last.r].given_keyword_name_bindings = EmptyDict
  /\ last.trace[Len(last.trace)].ev = "call"
  /\ last.trace[Len(last.trace)].args = <<Lit(2)>>

\* C15: a resolve of a Register created by a container that does not use
\* parameter names as bindings reports every parameter that has no explicit
\* value, no name binding, no registered declared type and no default as
\* unresolvable, whether or not the parameter's name is a registered key.
C15_NameIgnoredWithoutFlag ==
  [][(/\ last'.op \in ResolveOps
      /\ registers[last'.r].is_valid
      /\ registers[last'.r].cls # "ValueRegister"
      /\ ~registers[last'.r].param_names_as_bindings)
     => \A i \in DOMAIN Signature(registers[last'.r].function).args :
          (/\ ~Signature(registers[last'.r].function).args[i].has_default
           /\ ~HasExplicit(registers[last'.r], i)
           /\ ~HasBinding(registers[last'.r], i)
           /\ \/ Signature(registers[last'.r].function).args[i].annotation = NoType
              \/ Contains(registers[last'.r].registry,
                          Signature(registers[last'.r].function).args[i].annotation,
                          MaxDepth) = "no")
          => /\ last'.exc = "DiContainerError:resolve"
             /\ Error("unresolvable",
                      Signature(registers[last'.r].function).args[i].name)
                  \in {last'.errs[j] : j \in DOMAIN last'.errs}
             /\ last'.trace = <<>>]_vars

\* C15, its case: Wrap(x) of the container sub was resolved while x is a
\* registered name of sub, and x was reported unresolvable
C15_RegisteredNameUnresolvable ==
  /\ last.op = "resolve"
  /\ registers[last.r].function = "Wrap"
  /\ registers[last.r].registry = "sub"
  /\ registers[last.r].given_positional_params = <<>>
  /\ registry["sub"]["x"] # NoRec
  /\ last.exc = "DiContainerError:resolve"
  /\ last.errs = <<Error("unresolvable", "x")>>

\* none of the strategies of _resolve_param applies to declared positional
\* parameter i of reg
Unresolvable(reg, i) ==
  /\ ~HasExplicit(reg, i)
  /\ ~HasBinding(reg, i)
  /\ ~Signature(reg.function).args[i].has_default
  /\ \/ Signature(reg.function).args[i].annotation = NoType
     \/ Contains(reg.registry, Signature(reg.function).args[i].annotation, MaxDepth) = "no"
  /\ \/ ~reg.param_names_as_bindings
     \/ Contains(reg.registry, Signature(reg.function).args[i].name, MaxDepth) = "no"

\* C16: a resolve of a Register that has to invoke its producer while at
\* least one of its declared parameters is unresolvable raises the aggregated
\* error, which lists every unresolvable parameter of the Register; the
\* producer is not invoked and the Register's cache is left as it was.
C16_EveryUnresolvableListed ==
  [][(/\ last'.op \in ResolveOps
      /\ registers[last'.r].is_valid
      /\ registers[last'.r].cls # "ValueRegister"
      /\ NeedsResolve(registers[last'.r])
      /\ \E i \in DOMAIN Signature(registers[last'.r].function).args :
           Unresolvable(registers[last'.r], i))
     => /\ last'.exc = "DiContainerError:resolve"
        /\ \A i \in DOMAIN Signature(registers[last'.r].function).args :
             Unresolvable(registers[last'.r], i)
             => Error("unresolvable", Signature(registers[last'.r].function).args[i].name)
                  \in {last'.errs[j] : j \in DOMAIN last'.errs}
        /\ \A j \in DOMAIN last'.trace :
             ~(last'.trace[j].ev = "call" /\ last'.trace[j].r = last'.r)
        /\ registers'[last'.r].cached_instance = registers[last'.r].cached_instance]_vars

\* C16, where it fails: Pair(x: Base, y) was resolved while y is
\* unresolvable, and the error that resolve raised is the one of the
\* Register bound to Base, which lists x only
C16_OuterParameterNotListed ==
  /\ last.op = "resolve"
  /\ registers[last.r].function = "Pair"
  /\ Unresolvable(registers[last.r], 2)
  /\ last.exc = "DiContainerError:resolve"
  /\ last.errs = <<Error("unresolvable", "x")>>

\* the positional values, or else the positional name bindings, that reg was
\* given beyond its declared positional parameters
ExcessValues(reg) ==
  SubSeq(reg.given_positional_params, Len(Signature(reg.function).args) + 1,
         Len(reg.given_positional_params))
ExcessBindings(reg) ==
  SubSeq(reg.given_positional_name_bindings, Len(Signature(reg.function).args) + 1,
         Len(reg.given_positional_name_bindings))

\* v is what resolving the key gives in the container g
ResolvedFrom(g, key, v) ==
  /\ GetItem(g, key, MaxDepth) \in DOMAIN registers
  /\ IF registers[GetItem(g, key, MaxDepth)].cls = "ValueRegister"
     THEN v = registers[GetItem(g, key, MaxDepth)].cached_instance
     ELSE v.t = Signature(registers[GetItem(g, key, MaxDepth)].function).returns

\* C17: a resolve of a Register that has to invoke its producer and was
\* given more positional values or positional name bindings than the
\* producer declares: with a *args slot, an invocation passes the excess
\* values as they are, or the values resolved from the excess bindings,
\* after the declared arguments and in the order given; without one, resolve
\* raises the aggregated error with the too-many error in it and the
\* producer is not invoked.
C17_ExcessOnlyIntoVarArgs ==
  [][(/\ last'.op \in ResolveOps
      /\ registers[last'.r].is_valid
      /\ registers[last'.r].cls # "ValueRegister"
      /\ NeedsResolve(registers[last'.r])
      /\ ExcessValues(registers[last'.r]) \o ExcessBindings(registers[last'.r]) # <<>>)
     => LET reg == registers[last'.r]
            n == Len(Signature(reg.function).args)
            calls == {j \in DOMAIN last'.trace :
                        last'.trace[j].ev = "call" /\ last'.trace[j].r = last'.r}
        IN  IF Signature(reg.function).varargs
            THEN \A j \in calls :
                   /\ Len(last'.trace[j].args) =
                        n + Len(ExcessValues(reg) \o ExcessBindings(reg))
                   /\ \A i \in DOMAIN ExcessValues(reg) :
                        last'.trace[j].args[n + i] = ExcessValues(reg)[i]
                   /\ \A i \in DOMAIN ExcessBindings(reg) :
                        ResolvedFrom(reg.registry, ExcessBindings(reg)[i],
                                     last'.trace[j].args[n + i])
            ELSE /\ calls = {}
                 /\ last'.exc = "DiContainerError:resolve"
                 /\ \E j \in DOMAIN last'.errs :
                      last'.errs[j].e \in {"too_many_params", "too_many_bindings"}]_vars

\* C17, where it fails: Wrap(x), given two positional name bindings, was
\* resolved and the error raised is the one of the Register bound to the
\* first name, without the too-many error
C17_TooManyNotReported ==
  /\ last.op = "resolve"
  /\ registers[last.r].function = "Wrap"
  /\ Len(registers[last.r].given_positional_name_bindings) = 2
  /\ last.exc = "DiContainerError:resolve"
  /\ last.errs = <<Error("unresolvable", "x")>>

\* the names of the keyword values and of the keyword name bindings of reg
\* that match no declared parameter
UnusedKeywords(reg) ==
  DictKeys(reg.given_keyword_params) \ DeclaredNames(Signature(reg.function))
UnusedNameBindings(reg) ==
  DictKeys(reg.given_keyword_name_bindings) \ DeclaredNames(Signature(reg.function))

\* C18: a resolve of a Register that has to invoke its producer and was
\* given keyword values or keyword name bindings under names the producer
\* does not declare: with a **kwargs slot, the producer's call is not refused
\* for its arguments and passes exactly those names as keywords, next to one
\* positional value per declared parameter; without one, resolve raises the
\* aggregated error with the unrecognized-keywords error in it and the
\* producer is not invoked.
C18_OnlyUnmatchedIntoVarKw ==
  [][(/\ last'.op \in ResolveOps
      /\ registers[last'.r].is_valid
      /\ registers[last'.r].cls # "ValueRegister"
      /\ NeedsResolve(registers[last'.r])
      /\ UnusedKeywords(registers[last'.r]) \cup UnusedNameBindings(registers[last'.r]) # {})
     => LET reg == registers[last'.r]
            calls == {j \in DOMAIN last'.trace :
                        last'.trace[j].ev = "call" /\ last'.trace[j].r = last'.r}
        IN  IF Signature(reg.function).varkw
            THEN /\ last'.exc # "TypeError:call"
                 /\ \A j \in calls :
                      /\ DictKeys(last'.trace[j].kwargs) =
                           UnusedKeywords(reg) \cup UnusedNameBindings(reg)
                      /\ Len(last'.trace[j].args) = Len(Signature(reg.function).args)
            ELSE /\ calls = {}
                 /\ last'.exc = "DiContainerError:resolve"
                 /\ \E j \in DOMAIN last'.errs :
                      last'.errs[j].e \in {"unused_keywords", "unused_name_bindings"}]_vars

\* C18, where it fails: va(x, *args, **kwargs), given the keyword values x
\* and z, was resolved, and its call was refused because x was passed both
\* by position and by keyword
C18_DeclaredKeywordPassedTwice ==
  /\ last.op = "resolve"
  /\ registers[last.r].function = "va"
  /\ DictKeys(registers[last.r].given_keyword_params) = {"x", "z"}
  /\ last.exc = "TypeError:call"

\* the key is bound in the registry of g itself and in the registry of a
\* container attached to g
BoundHereAndBelow(g, key) ==
  /\ registry[g][key] # NoRec
  /\ \E s \in Containers :
       InSeq(s, sub_registries[g]) /\ registry[s][key] # NoRec

\* C19: while a key is bound both in a container's own registry and in the
\* registry of an attached sub-container, a resolve_type/resolve_name of the
\* key on the container resolves the container's own Register, and a resolve
\* of a Register of the container whose first parameter is looked up under
\* the key gets the container's own Register: the circular error when that
\* is the resolving Register itself, its value when it holds one, and
\* otherwise nothing but an instance of its producer.
C19_LocalRecordWins ==
  [][/\ (/\ last'.op \in ContainerResolveOps
         /\ BoundHereAndBelow(last'.c, last'.key))
        => /\ last'.r = registry[last'.c][last'.key]
           /\ registers[last'.r].cls = "ValueRegister"
              => (last'.exc = "none" /\ last'.val = registers[last'.r].cached_instance)
     /\ (/\ last'.op = "resolve"
         /\ registers[last'.r].is_valid
         /\ registers[last'.r].function = "Wrap"
         /\ registers[last'.r].param_names_as_bindings
         /\ BoundHereAndBelow(registers[last'.r].registry, "x"))
        => LET own == registry[registers[last'.r].registry]["x"]
           IN  IF own = last'.r
               THEN /\ last'.exc = "DiContainerError:resolve"
                    /\ last'.errs = <<CircularError("x", <<last'.r>>)>>
               ELSE IF registers[own].cls = "ValueRegister"
               THEN /\ last'.trace # <<>>
                    /\ last'.trace[Len(last'.trace)].ev = "call"
                    /\ last'.trace[Len(last'.trace)].r = last'.r
                    /\ last'.trace[Len(last'.trace)].args =
                         <<registers[own].cached_instance>>
               ELSE \A j \in DOMAIN last'.trace :
                      (last'.trace[j].ev = "call" /\ last'.trace[j].r = last'.r)
                      => last'.trace[j].args[1].t =
                           Signature(registers[own].function).returns]_vars

\* C19, its case: Wrap(x) is bound to x in main, a value is bound to x in the
\* attached sub, and a resolve of Wrap has found Wrap itself under x
C19_OwnRecordFoundFirst ==
  /\ last.op = "resolve"
  /\ registers[last.r].function = "Wrap"
  /\ registry["main"]["x"] = last.r
  /\ InSeq("sub", sub_registries["main"])
  /\ registry["sub"]["x"] # NoRec
  /\ last.errs = <<CircularError("x", <<last.r>>)>>

\* the containers that g reaches through at most n attachments, and whether
\* the registry of one of those that g reaches holds the key
RECURSIVE Reach(_, _)
Reach(S, n) ==
  IF n = 0 THEN S
  ELSE Reach(S \cup {s \in AllContainers : \E g \in S : InSeq(s, sub_registries[g])}, n - 1)
Holds(g, key) ==
  \E c \in Reach({g}, MaxDepth) : registry[c][key] # NoRec

\* the Register that a depth-first search in the order of attachment finds
\* for the key from g, in at most d descents
RECURSIVE DepthFirst(_, _, _)
DepthFirst(g, key, d) ==
  IF registry[g][key] # NoRec THEN registry[g][key]
  ELSE IF d = 0 \/ ~\E i \in DOMAIN sub_registries[g] : Holds(sub_registries[g][i], key)
  THEN NoRec
  ELSE DepthFirst(sub_registries[g][CHOOSE i \in DOMAIN sub_registries[g] :
                    /\ Holds(sub_registries[g][i], key)
                    /\ \A j \in 1..(i - 1) : ~Holds(sub_registries[g][j], key)],
                  key, d - 1)

\* C20: a lookup of a key in the registry of a container returns; what it
\* returns is the local Register, else the Register that the lookup finds in
\* the first attached sub-registry whose chain holds the key, and nothing
\* only when no registry of the chain holds the key.
C20_DepthFirstInAttachmentOrder ==
  last.op = "__getitem__"
  => /\ last.exc = "none"
     /\ last.r = DepthFirst(last.c, last.key, MaxDepth)
     /\ last.r = NoRec <=> ~Holds(last.c, last.key)

\* C20, where it fails: x is bound in sub2, which is attached to main after
\* main itself, and the lookup of x from main did not return
C20_LookupNeverReturns ==
  /\ last.op = "__getitem__"
  /\ last.c = "main"
  /\ sub_registries["main"] = <<"main", "sub2">>
  /\ registry["sub2"]["x"] # NoRec
  /\ last.exc = "RecursionError"

\* the containers reached from those of S through one to n sub-container links
RECURSIVE Below(_, _)
Below(S, n) ==
  LET subs == {s \in AllContainers : \E g \in S : InSeq(s, sub_containers[g])}
  IN  IF n = 1 THEN subs ELSE subs \cup Below(subs, n - 1)

\* C21: no container is reachable from itself through sub-container links.
C21_ContainmentAcyclic ==
  \A g \in AllContainers : g \notin Below({g}, MaxDepth)

\* C21, where it fails: add_sub_container of main on main returned normally
\* and main is its own sub-container
C21_AttachedToItself ==
  /\ last.op = "add_sub_container"
  /\ last.c = "main"
  /\ last.key = "main"
  /\ last.exc = "none"
  /\ InSeq("main", sub_containers["main"])

\* C22: an add_sub_container of a container from which the parent is already
\* reachable through sub-container links raises the container-cycle error and
\* leaves the sub-containers and the sub-registries of every container as
\* they were.
C22_CycleRefusedGraphUnchanged ==
  [][(/\ last'.op = "add_sub_container"
      /\ last'.c \in Below({last'.key}, MaxDepth))
     => /\ last'.exc = "DiContainerError:circular"
        /\ sub_containers' = sub_containers
        /\ sub_registries' = sub_registries]_vars

\* C22, where it fails: main, sub and leaf form a chain, main is also attached
\* to itself, and attaching main to leaf ended in the recursion limit instead
\* of the container-cycle error
C22_CheckNeverReturns ==
  /\ last.op = "add_sub_container"
  /\ last.c = "leaf"
  /\ last.key = "main"
  /\ sub_containers["main"] = <<"main", "sub">>
  /\ sub_containers["sub"] = <<"leaf">>
  /\ last.exc = "RecursionError"

\* C23: every resolve of a valid ValueRegister, on the Register or through
\* its container, returns the value the Register was created with and
\* invokes no producer; with_params and with_name_bindings on a ValueRegister
\* raise and leave every Register as it was.
C23_ValueResolvesToItself ==
  [][/\ (/\ last'.op \in ResolveOps
         /\ last'.r # NoRec
         /\ registers[last'.r].cls = "ValueRegister"
         /\ registers[last'.r].is_valid)
        => /\ last'.exc = "none"
           /\ last'.val = registers[last'.r].cached_instance
           /\ \A j \in DOMAIN last'.trace : last'.trace[j].ev # "call"
           /\ ninvocations' = ninvocations
     /\ (/\ last'.op \in {"with_params", "with_name_bindings"}
         /\ registers[last'.r].cls = "ValueRegister")
        => /\ last'.exc # "none"
           /\ registers' = registers
           /\ registry' = registry]_vars

\* C23, where it fails: a Register created by register_value(None) was
\* resolved and the resolve raised the unsupported-operation error
C23_NoneValueNotResolved ==
  /\ last.op \in ResolveOps
  /\ last.r # NoRec
  /\ registers[last.r].cls = "ValueRegister"
  /\ registers[last.r].is_valid
  /\ registers[last.r].cached_instance = NoneV
  /\ last.exc = "DiContainerError:operation"

C25_SubRegistriesInLockstep ==
  /\ \A g \in AllContainers : sub_registries[g] = sub_containers[g]
  /\ (last.op \in {"add_sub_container", "remove_sub_container"} /\ last.exc = "none")
     => InSeq(last.key, sub_registries[last.c]) = (last.op = "add_sub_container")

\* C25, its case: a remove_sub_container of a name that is not attached
\* raised KeyError while two sub-containers are attached to main
C25_FailedRemoveKeepsBoth ==
  /\ last.op = "remove_sub_container"
  /\ last.exc = "KeyError"
  /\ last.c = "main"
  /\ Len(sub_containers["main"]) = 2
  /\ Len(sub_registries["main"]) = 2

CreateOps == {"register_type", "register_callable", "register_value"}

\* C26: register_type, register_callable and register_value return a new
\* Register that is valid and bound to no key, and change neither an existing
\* Register nor a registry, a sub-registry or what any lookup gives.
C26_CreationLeavesRegistries ==
  [][last'.op \in CreateOps
     => /\ last'.exc = "none"
        /\ last'.r \notin DOMAIN registers
        /\ last'.r \in DOMAIN registers'
        /\ registers'[last'.r].key = NoKey
        /\ registers'[last'.r].is_valid
        /\ registers'[last'.r].registry = last'.c
        /\ \A r \in DOMAIN registers : registers'[r] = registers[r]
        /\ registry' = registry
        /\ sub_registries' = sub_registries
        /\ Lookups' = Lookups]_vars

\* C26, its case: a Register was created in main while x is bound in main,
\* and it is the second Register, unbound
C26_CreatedNextToBound ==
  /\ last.op \in CreateOps
  /\ last.c = "main"
  /\ last.r = 2
  /\ registry["main"]["x"] = 1
  /\ registers[2].key = NoKey

\* C27: a to_type/to_name that returns normally enters the Register under the
\* key in the registry of the container that created it and changes no other
\* entry of any registry, no sub-registry and no other Register, whatever
\* replace is and wherever else the key is bound; and a
\* resolve_type/resolve_name of a key on a container that holds an entry for
\* it resolves the Register of that entry.
C27_BindingIsLocal ==
  [][/\ (last'.op \in BindOps /\ last'.exc = "none")
        => /\ registry'[registers[last'.r].registry][last'.key] = last'.r
           /\ \A c \in AllContainers, k \in Keys :
                (c # registers[last'.r].registry \/ k # last'.key)
                => registry'[c][k] = registry[c][k]
           /\ sub_registries' = sub_registries
           /\ \A r \in DOMAIN registers : r # last'.r => registers'[r] = registers[r]
     /\ (last'.op \in ContainerResolveOps /\ registry[last'.c][last'.key] # NoRec)
        => last'.r = registry[last'.c][last'.key]]_vars

\* C27, its case: x was bound only in the attached sub, a Register of main was
\* bound to x with replace=True, and sub still holds its own Register under x
C27_SubEntryKept ==
  /\ last.op = "to_name"
  /\ last.exc = "none"
  /\ last.flag
  /\ last.c = "main"
  /\ last.old = NoRec
  /\ InSeq("sub", sub_registries["main"])
  /\ registry["sub"]["x"] # NoRec
  /\ registry["sub"]["x"] # last.r
  /\ registers[registry["sub"]["x"]].is_valid

\* C28: every resolve_type/resolve_name returns a value or raises one of the
\* container's errors: none recurses without end (which the interpreter
\* cuts off at its recursion limit).
C28_ResolveReturns ==
  last.op \in ContainerResolveOps => last.exc # "RecursionError"

\* C28, where it fails: main is attached to itself, Wrap(x) is bound to y in
\* main, x is bound nowhere, and resolve_name of y recursed without end
C28_LookupRecursesForever ==
  /\ last.op = "resolve_name"
  /\ last.c = "main"
  /\ last.key = "y"
  /\ last.r # NoRec
  /\ registers[last.r].function = "Wrap"
  /\ InSeq("main", sub_registries["main"])
  /\ registry["main"]["x"] = NoRec
  /\ last.exc = "RecursionError"

\* The Register that a lookup of the key from container g finds
Occupant(g, key) == registers[GetItem(g, key, MaxDepth)]

\* C29: to_name/to_type without replace on an occupied key raises the
\* key-conflict error whatever Register occupies the key: a TypeRegister, a
\* ValueRegister, or a CallableRegister with or without a return type.
C29_ConflictForEveryOccupant ==
  [][(/\ last'.op \in BindOps
      /\ ~last'.flag
      /\ last'.r \in RecIds
      /\ registers[last'.r].is_valid
      /\ registers[last'.r].key = NoKey
      /\ Contains(last'.c, last'.key, MaxDepth) = "yes"
      /\ Occupant(last'.c, last'.key).cls
           \in {"TypeRegister", "ValueRegister", "CallableRegister"})
     => last'.exc = "ValueError:conflict"]_vars

\* C29, where it fails: the key is held by a CallableRegister registered
\* without a return type and the binding call ended with AttributeError
C29_UntypedCallableOccupant ==
  /\ last.op = "to_name"
  /\ ~last.flag
  /\ last.exc = "AttributeError"
  /\ Contains(last.c, last.key, MaxDepth) = "yes"
  /\ Occupant(last.c, last.key).cls = "CallableRegister"
  /\ Occupant(last.c, last.key).return_type = NoType
  /\ registers[last.r].key = NoKey

\* v is what the key yielded to invocation j of the trace: the value of a
\* ValueRegister, else the result of the latest event of the key's Register
Yielded(g, key, trace, j, v) ==
  LET p == GetItem(g, key, MaxDepth)
  IN  IF registers[p].cls = "ValueRegister" THEN v = registers[p].cached_instance
      ELSE \E k \in 1..(j - 1) :
             /\ trace[k].r = p
             /\ trace[k].val = v
             /\ \A m \in (k + 1)..(j - 1) : trace[m].r # p

\* the key that a nested resolution uses for parameter i of reg when it has
\* neither an explicit value nor a name binding: the declared type when
\* registered, else the parameter's name when the container allows it
RegisteredKey(reg, i) ==
  LET param == Signature(reg.function).args[i]
  IN  IF param.annotation # NoType /\ Contains(reg.registry, param.annotation, MaxDepth) = "yes"
      THEN param.annotation
      ELSE IF reg.param_names_as_bindings /\ Contains(reg.registry, param.name, MaxDepth) = "yes"
      THEN param.name
      ELSE NoKey

\* C30: in every resolve, whatever its prefer_defaults, each invocation of a
\* nested Register's producer passes, for a parameter with a default and a
\* registered key (and no explicit value or name binding), the value the key
\* yields, not the default.
C30_NestedGetsRegistered ==
  [][last'.op \in ResolveOps
     => \A j \in DOMAIN last'.trace :
          LET e == last'.trace[j]
          IN  (e.ev = "call" /\ e.r # last'.r)
              => \A i \in DOMAIN Signature(registers[e.r].function).args :
                   (/\ Signature(registers[e.r].function).args[i].has_default
                    /\ ~HasExplicit(registers[e.r], i)
                    /\ ~HasBinding(registers[e.r], i)
                    /\ RegisteredKey(registers[e.r], i) # NoKey)
                   => Yielded(registers[e.r].registry, RegisteredKey(registers[e.r], i),
                              last'.trace, j, e.args[i])]_vars

\* C30, where it fails: Wrap was resolved with prefer_defaults, its nested
\* opt(x: int = 7) was invoked with 7 although int is bound to make_none,
\* which had just returned None
C30_NestedNoneReplacedByDefault ==
  /\ last.op = "resolve"
  /\ last.exc = "none"
  /\ last.flag
  /\ registers[last.r].function = "Wrap"
  /\ registry["main"]["int"] # NoRec
  /\ registers[registry["main"]["int"]].function = "make_none"
  /\ \E j \in DOMAIN last.trace :
       /\ last.trace[j].ev = "call"
       /\ registers[last.trace[j].r].function = "opt"
       /\ last.trace[j].args = <<Lit(7)>>

\* no Register occurs twice in the sequence
Distinct(seq) == \A i \in DOMAIN seq, j \in DOMAIN seq : seq[i] = seq[j] => i = j

C32_SingletonOnceUnderThreads ==
  \A t \in Threads, u \in Threads :
    (/\ t # u
     /\ threads[t].r # NoRec
     /\ threads[t].r = threads[u].r
     /\ registers[threads[t].r].instantiation = "Singleton")
    => /\ threads[t].made = NoneV \/ threads[u].made = NoneV
       /\ (threads[t].pc = "idle" /\ threads[u].pc = "idle"
           /\ threads[t].ret # NoneV /\ threads[u].ret # NoneV)
          => threads[t].ret = threads[u].ret

\* C32, where it fails: both threads have tested the empty cache of the same
\* Singleton Register, both have invoked its producer, and they have returned
\* different instances
C32_TwoInstancesOfSingleton ==
  /\ threads["t1"].r # NoRec
  /\ threads["t1"].r = threads["t2"].r
  /\ registers[threads["t1"].r].instantiation = "Singleton"
  /\ threads["t1"].pc = "idle"
  /\ threads["t2"].pc = "idle"
  /\ threads["t1"].made # NoneV
  /\ threads["t2"].made # NoneV
  /\ threads["t1"].ret # threads["t2"].ret
  /\ ninvocations = 2

\* C33: a configuration call that invalidates its Register changes no
\* registry entry other than the entries that hold that Register.
C33_InvalidationRemovesOwnEntry ==
  [][(/\ last'.op \in {"with_params", "with_name_bindings"}
      /\ last'.exc = "DiContainerError:positional")
     => \A g \in AllContainers, k \in Keys :
          registry'[g][k] # registry[g][k] => registry[g][k] = last'.r]_vars

\* C33, where it fails: the Register was invalidated after another Register
\* had replaced it at its key, and the key, last bound to the other one, is
\* now empty
C33_ReplacementEntryRemoved ==
  /\ last.op \in {"with_params", "with_name_bindings"}
  /\ last.exc = "DiContainerError:positional"
  /\ last.r # NoRec
  /\ registers[last.r].key \in Keys
  /\ replaced_by[last.r] # NoRec
  /\ latest[last.c][registers[last.r].key] = replaced_by[last.r]
  /\ registers[replaced_by[last.r]].is_valid
  /\ registry[last.c][registers[last.r].key] = NoRec

\* C34: every entry of every registry holds a valid Register whose key is the
\* entry's key, which was created by the registry's container and which is
\* held by no other entry.
C34_EntriesWellFormed ==
  \A g \in AllContainers, k \in Keys :
    registry[g][k] # NoRec
    => /\ registers[registry[g][k]].is_valid
       /\ registers[registry[g][k]].key = k
       /\ registers[registry[g][k]].registry = g
       /\ \A g2 \in AllContainers, k2 \in Keys :
            registry[g2][k2] = registry[g][k] => (g2 = g /\ k2 = k)

\* C34 happens: a Register that was bound has just been invalidated and its
\* entry is gone, while a Register of the other container is still entered
C34_EntryLeftAfterInvalidation ==
  /\ last.exc = "DiContainerError:positional"
  /\ ~registers[last.r].is_valid
  /\ registers[last.r].key \in Keys
  /\ registry[last.c][registers[last.r].key] = NoRec
  /\ \E g \in Containers, k \in Keys : g # last.c /\ registry[g][k] # NoRec

\* the resolving call ended with an error of the resolution itself
ResolveFailed(o) ==
  /\ o.op \in ResolveOps
  /\ o.r # NoRec
  /\ o.exc \in {"DiContainerError:resolve", "TypeError:call"}

\* C35: a resolve that fails leaves the Register it was called for and every
\* Register in the in-flight stack with the cache they had, empty for a
\* Singleton, while every Singleton whose producer returned during the call
\* holds the instance it returned; and a resolve that succeeds for a Register
\* without a cached instance has invoked its producer.
C35_FailureCachesOnlyCompleted ==
  [][/\ (/\ last'.op \in ResolveOps
         /\ last'.r # NoRec
         /\ last'.exc = "none"
         /\ registers[last'.r].cached_instance = NoneV)
        => (/\ last'.trace # <<>>
            /\ last'.trace[Len(last'.trace)].ev = "call"
            /\ last'.trace[Len(last'.trace)].r = last'.r
            /\ last'.trace[Len(last'.trace)].val = last'.val)
     /\ ResolveFailed(last')
        => (/\ InSeq(last'.r, last'.stack)
            /\ \A i \in DOMAIN last'.stack :
                 LET q == last'.stack[i]
                 IN  /\ registers'[q].cached_instance = registers[q].cached_instance
                     /\ (registers[q].instantiation = "Singleton"
                         => registers'[q].cached_instance = NoneV)
            /\ \A j \in DOMAIN last'.trace :
                 LET e == last'.trace[j]
                 IN  (e.ev = "call" /\ registers[e.r].instantiation = "Singleton")
                     => registers'[e.r].cached_instance = e.val)]_vars

\* C35 happens: the resolve of Pair failed on its parameter y after the
\* Singleton bound to Base had been invoked for x, which keeps its instance
C35_DependencyKeptAfterFailure ==
  /\ ResolveFailed(last)
  /\ registers[last.r].function = "Pair"
  /\ registers[last.r].cached_instance = NoneV
  /\ last.stack = <<last.r>>
  /\ Len(last.trace) = 1
  /\ last.trace[1].ev = "call"
  /\ registers[last.trace[1].r].instantiation = "Singleton"
  /\ registers[last.trace[1].r].cached_instance = last.trace[1].val
  /\ last.trace[1].val # NoneV

\* the keys that can serve parameter i of reg when the lookups go through
\* the registry chain of the container that created reg and use that
\* container's param_names_as_bindings
OwnKeys(reg, i) ==
  LET param == Signature(reg.function).args[i]
      g == reg.registry
  IN  {k \in Keys :
         /\ Contains(g, k, MaxDepth) = "yes"
         /\ \/ HasBinding(reg, i) /\ k = Binding(reg, i)
            \/ k = param.annotation
            \/ param_names_as_bindings[g] /\ k = param.name}

\* C36: in every resolve, each invocation of a Register's producer passes,
\* for a parameter without explicit value or default, what a key found from
\* the Register's own container yields, under that container's
\* param_names_as_bindings; a circular dependency is reported only for such a
\* key; and a Register with a parameter that has no such key is not resolved.
C36_LookupsInCreatorsChain ==
  [][last'.op \in ResolveOps
     => /\ \A j \in DOMAIN last'.trace :
             LET e == last'.trace[j]
             IN  e.ev = "call"
                 => \A i \in DOMAIN Signature(registers[e.r].function).args :
                      (/\ ~HasExplicit(registers[e.r], i)
                       /\ ~Signature(registers[e.r].function).args[i].has_default)
                      => \E k \in OwnKeys(registers[e.r], i) :
                           Yielded(registers[e.r].registry, k, last'.trace, j, e.args[i])
        /\ \A k \in DOMAIN last'.errs :
             last'.errs[k].e = "circular"
             => /\ last'.errs[k].stack # <<>>
                /\ LET q == registers[last'.errs[k].stack[Len(last'.errs[k].stack)]]
                   IN  \E i \in DOMAIN Signature(q.function).args :
                         last'.errs[k].p \in OwnKeys(q, i)
        /\ (/\ last'.r # NoRec
            /\ registers[last'.r].is_valid
            /\ registers[last'.r].cls # "ValueRegister"
            /\ \E i \in DOMAIN Signature(registers[last'.r].function).args :
                 /\ ~HasExplicit(registers[last'.r], i)
                 /\ ~Signature(registers[last'.r].function).args[i].has_default
                 /\ OwnKeys(registers[last'.r], i) = {})
           => last'.exc = "DiContainerError:resolve"]_vars

\* C36 happens: resolve_name of y on main reached, through the parameter name
\* x, the Wrap of sub that is bound to x and has a name binding to y; y is
\* bound only in main, and the Wrap of sub was reported unresolvable
C36_ParentKeyNotSeen ==
  /\ last.op = "resolve_name"
  /\ last.c = "main"
  /\ last.key = "y"
  /\ last.exc = "DiContainerError:resolve"
  /\ last.errs = <<Error("unresolvable", "x")>>
  /\ Len(last.stack) = 2
  /\ registers[last.stack[2]].registry = "sub"
  /\ registers[last.stack[2]].given_positional_name_bindings = <<"y">>
  /\ registry["sub"]["y"] = NoRec
  /\ registry["main"]["y"] = last.r

\* a name binding of reg, positional or by keyword, names a key that no
\* lookup from reg's container finds
HasAbsentBinding(reg) ==
  \/ \E i \in DOMAIN reg.given_positional_name_bindings :
       Contains(reg.registry, reg.given_positional_name_bindings[i], MaxDepth) = "no"
  \/ \E i \in DOMAIN reg.given_keyword_name_bindings :
       Contains(reg.registry, reg.given_keyword_name_bindings[i].v, MaxDepth) = "no"

\* C37: a resolve of a valid Register that has a name binding to a key absent
\* from the registry chain returns a value or fails with the aggregated
\* resolution error, never with another exception.
C37_AbsentBindingAggregated ==
  [][(/\ last'.op \in ResolveOps
      /\ last'.r # NoRec
      /\ registers[last'.r].is_valid
      /\ registers[last'.r].cls # "ValueRegister"
      /\ HasAbsentBinding(registers[last'.r]))
     => last'.exc \in {"none", "DiContainerError:resolve"}]_vars

\* C37, where it fails: va(x, *args, **kwargs) was given two positional name
\* bindings, the second one, taken by *args, names an absent key, and resolve
\* ended with AttributeError
C37_ExcessBindingToAbsentKey ==
  /\ last.op = "resolve"
  /\ last.r # NoRec
  /\ registers[last.r].function = "va"
  /\ Len(registers[last.r].given_positional_name_bindings) = 2
  /\ Contains("main", registers[last.r].given_positional_name_bindings[1], MaxDepth) = "yes"
  /\ Contains("main", registers[last.r].given_positional_name_bindings[2], MaxDepth) = "no"
  /\ last.exc = "AttributeError"

====
